---- MODULE Spec2Model ----
(***************************************************************************)
(* SimpleSampler.  Four parts of the program are modelled, each with its   *)
(* own specification over the shared set of variables:                     *)
(*                                                                         *)
(*   Spec, FairSpec  the step-sequencer engine (sequencer/engine.py)       *)
(*                   driven by a controlling thread.  Every timing thread  *)
(*                   executing SequencerEngine._run is a process with its  *)
(*                   own program counter; a thread's action is one access  *)
(*                   to the state the threads share, and a call of the     *)
(*                   controlling thread that does not block is one action. *)
(*   TimingSpec      the playback loop of one timing thread against the    *)
(*                   clock, in milliseconds.                               *)
(*   MixerSpec       the audio mixer (audio/playback.py): callers of       *)
(*                   play_data, the audio callback, the lock they share,   *)
(*                   and the shutdown handlers calling cleanup().          *)
(*   WavSpec         load_wav applied to every file of a bounded set.      *)
(*                                                                         *)
(* Time is abstracted in Spec: an Event.wait with a timeout returns either *)
(* because the flag was set or because the timeout elapsed, whichever the  *)
(* scheduler makes happen first; Thread.join with a timeout returns when   *)
(* the thread has exited, or after the timeout when nothing makes it exit. *)
(* Floating-point values are modelled as exact fixed-point numbers.        *)
(***************************************************************************)
EXTENDS Integers, Sequences, FiniteSets, TLC

\* ---------------------------------------------------------------- bounds
MaxThreads == 2
BeatsPerBar == 2
StepsPerBeat == 2
MaxPads == 2
MaxPatterns == 2
MaxCalls == 3

\* Python's None, for an int | None field
None == -1

Threads == 1..MaxThreads
PadIds == 1..MaxPads

\* ------------------------------------------------------- sequence (schema)
\* SequenceFile.total_steps
total_steps == BeatsPerBar * StepsPerBeat

\* the step list of pad p in pattern i (0-based), one 0/1 flag per step
StepFlags(i, p) == [s \in 1..total_steps |-> IF (s - 1 + p + i) % 2 = 0 THEN 1 ELSE 0]

\* Pattern.steps: an insertion-ordered dict pad id -> step list, as a sequence
\* of <<pad, steps>> entries.  Even patterns hold every pad, odd ones pad 1 only.
PatternOf(i) ==
    IF i % 2 = 0 THEN [k \in 1..MaxPads |-> <<k, StepFlags(i, k)>>]
    ELSE << <<1, StepFlags(i, 1)>> >>

\* SequenceFile.patterns as loaded
InitPatterns == [j \in 1..MaxPatterns |-> PatternOf(j - 1)]

\* the pads whose sample was preloaded: the last pad of the bank has no sample
sample_cache == {p \in PadIds : p < MaxPads}

VARIABLES
    playing,            \* SequencerEngine._playing
    stop_event,         \* SequencerEngine._stop_event (is it set)
    current_step,       \* SequencerEngine._current_step
    pending_pattern,    \* SequencerEngine._pending_pattern
    thread,             \* SequencerEngine._thread: 0 (None) or a thread
    active_pattern,     \* SequenceFile.active_pattern
    patterns,           \* SequenceFile.patterns
    metronome_enabled,  \* MetronomeConfig.enabled
    accent_beat_1,      \* MetronomeConfig.accent_beat_1
    calls,              \* calls the controlling thread has made so far
    ctl,                \* where the controlling thread is: "idle" or in start()'s join
    pc,                 \* per timing thread: its position in _run ("dead": not alive)
    beat,               \* per thread: _run's count-in loop variable
    iter_step,          \* per thread: _current_step as read when the iteration began
    fired,              \* per thread: pads submitted to the mixer in this iteration
    click,              \* per thread: metronome click submitted in this iteration
    ci_beats,           \* per thread: beats passed to on_count_in_beat, in order
    ci_clicks,          \* per thread: clicks submitted during the count-in, in order
    last_step           \* last index passed to on_step since playback started, or None

engine_vars == <<playing, stop_event, current_step, pending_pattern, thread>>
seq_vars == <<active_pattern, patterns>>
cfg_vars == <<metronome_enabled, accent_beat_1>>
ctl_vars == <<calls, ctl>>
iter_vars == <<iter_step, fired, click>>
ci_vars == <<ci_beats, ci_clicks>>

\* everything the engine and its controlling thread hold
all_engine == <<engine_vars, seq_vars, cfg_vars, ctl_vars, pc, beat, iter_vars, ci_vars,
                last_step>>

\* the playback loop against the clock (times in milliseconds)
VARIABLES
    bpm,            \* SequenceFile.bpm
    now,            \* what time.perf_counter() reads
    next_time,      \* _run's next_time: the wake-up target
    t_pc,           \* the timed loop's position: "off", "loop", "wait"
    t_start,        \* next_time as first set (line 151)
    steps,          \* iterations completed since playback started
    sum_intervals,  \* sum of the intervals computed at line 155 so far
    tempo_changed,  \* was bpm changed since playback started
    changed_at,     \* where the timed loop was at the last tempo key, or "none"
    sleeps,         \* the last iteration: "slept", "skipped" (no sleep), "none"
    late            \* now - next_time when the last iteration ended its wait

timing_vars == <<bpm, now, next_time, t_pc, t_start, steps, sum_intervals, tempo_changed,
                 changed_at, sleeps, late>>

\* the audio mixer and the shutdown of the application
VARIABLES
    active_voices,  \* AudioPlayer.active_voices: a list of [data, idx]
    lock,           \* AudioPlayer.lock: 0 (free), a caller, or CallbackId
    stream,         \* AudioPlayer.stream: "active", "stopped" or "closed"
    p_pc,           \* per caller: its position in play_data
    p_data,         \* per caller: the buffer it is submitting
    cb_pc,          \* the callback's position: "idle", "blocked", "mix"
    cb_i,           \* the callback's loop index i (1-based)
    out_data,       \* the callback's out_data
    cb_status,      \* the status the backend passed to this cycle
    cycle_voices,   \* active_voices as it was when the cycle took the lock
    cb_result,      \* how the last cycle ended: "none", "continue", "raised"
    output,         \* the frames the last cycle returned
    n_returned,     \* play_data calls that have returned
    n_added,        \* voices added by play_data
    app,            \* the application: "running", "quit", "unmounted"
    n_close,        \* calls of stream.close() that went through
    n_terminate,    \* calls of pa.terminate() that went through
    cleanup_error   \* has a cleanup() raised

mixer_vars == <<active_voices, lock, stream, p_pc, p_data, cb_pc, cb_i, out_data, cb_status,
                cycle_voices, cb_result, output, n_returned, n_added, app, n_close,
                n_terminate, cleanup_error>>

caller_vars == <<p_pc, p_data, n_returned, n_added>>
cb_vars == <<cb_pc, cb_i, out_data, cb_status, cycle_voices, cb_result, output>>
shutdown_vars == <<app, n_close, n_terminate, cleanup_error>>

\* the WAV decoder: one call of AudioPlayer.load_wav
VARIABLES
    wav_file,       \* the file at file_path, as the wave module presents it
    wav_pc,         \* "ready" (before the call) or "loaded" (after it)
    wav_result      \* what the call produced: an array, or an exception

wav_vars == <<wav_file, wav_pc, wav_result>>

\* MIDI bindings: one pad's binding string, the binding map and one message
VARIABLES
    pad_bind,       \* Pad.midibind of pad 1, a string (sequence of characters)
    parsed,         \* what parse_midibind(pad_bind) returned
    midibind_map,   \* Application._midibind_map: a set of <<binding, pad id>>
    midi_msg,       \* a message the MIDI port delivers
    match_result,   \* what midi_msg_matches(midi_msg, parsed) returned
    triggered,      \* the pads the poll loop has triggered
    trigger_calls,  \* what _trigger_pad has called, in order: <<"play_data", pad>>,
                    \* <<"flash", pad>>
    bind_pc         \* "init", "parsed", "ready", "matched", "polled"

bind_vars == <<pad_bind, parsed, midibind_map, midi_msg, match_result, triggered,
               trigger_calls, bind_pc>>

\* the sampler's MIDI input thread and its controlling (UI) thread
VARIABLES
    midi_running,   \* Application._midi_running
    midi_pc,        \* the MIDI thread: "poll", "trigger", "in_call", "exited"
    port_pending,   \* messages waiting in the port that match a pad
    n_events,       \* messages the device has delivered so far
    ui_pc,          \* the controlling thread: "idle", "busy", "joining"
    ui_calls,       \* callbacks handed to the controlling thread, not yet run
    n_flashed,      \* pad flashes the controlling thread has run
    n_played,       \* buffers the MIDI thread has submitted to the mixer
    old_pc,         \* the thread of the listener before the last device switch:
                    \* "none", "in_call", "poll", "exited"
    old_polls,      \* passes of the poll loop that thread has made since the switch
    switches        \* device switches so far

\* the previous listener's thread and the switches
switch_vars == <<old_pc, old_polls, switches>>

midi_vars == <<midi_running, midi_pc, port_pending, n_events, ui_pc, ui_calls, n_flashed,
               n_played, switch_vars>>

\* the sequencer app editing the sequence while one timing thread steps
\* through lines 153-198 statement by statement
VARIABLES
    ed_pc,          \* the thread: "dead", "count_in", "loop", "bar", "apply", "clear",
                    \* "read", "check",
                    \* "index", "iter", "metro", "sleep", "failed"
    pat_idx,        \* _run's local pat_idx
    pattern_at,     \* where _run's local pattern now sits in the pattern list, or None
    it_size,        \* the size of pattern.steps when the for loop began
    it_pos,         \* entries of pattern.steps the for loop has visited
    ed_error,       \* the exception that ended the thread, or "none"
    n_loads,        \* sequences loaded by action_load_patterns so far
    idx_load,       \* n_loads when pat_idx was read
    edits           \* handlers the controlling thread has run so far

edit_vars == <<ed_pc, pat_idx, pattern_at, it_size, it_pos, ed_error, n_loads, idx_load,
               edits>>

\* a sequence created or loaded by the sequencer app, and edited
VARIABLES
    seq_json,       \* the pattern file: bpm, time signature, steps per beat, step lists
    seq_cfg,        \* SequencerConfig.default_bpm
    sequence,       \* SequencerApp.sequence (one pattern)
    sq_pc,          \* "new", "created" or "loaded"
    presses         \* keys handled since the sequence was made

file_vars == <<seq_json, seq_cfg, sequence, sq_pc, presses>>

\* the sample cache of an application from construction to shutdown
VARIABLES
    app_kind,       \* "sampler" (tui/app.py) or "sequencer" (sequencer/app.py)
    pad_sizes,      \* per pad: the size of its sample file, 0 when there is none
    boot_pc,        \* "init", "preload", "built", "running", "closed"
    preload_i,      \* the pad the preload loop is at
    total_size,     \* the preload loop's total_size
    cache,          \* the application's sample_cache: the pad ids it holds
    consumers,      \* the threads started that read the cache: "seq", "midi"
    cache_reads,    \* reads of the cache by those threads so far
    cache_uses      \* operations run since construction

cache_vars == <<app_kind, pad_sizes, boot_pc, preload_i, total_size, cache, consumers,
                cache_reads, cache_uses>>

\* the play/stop key of the sequencer application
VARIABLES
    playhead,       \* SequencerApp._playhead: a step, -1 (stopped) or -2 (count-in)
    toggle_req,     \* what the last play/stop key asked of the engine, or "none"
    toggle_busy     \* was a timing thread counting in or playing at that key

play_vars == <<playhead, toggle_req, toggle_busy>>

\* the input and editing side of the applications
ui_vars == <<bind_vars, midi_vars, edit_vars, file_vars, cache_vars, play_vars>>

\* what the actions of one part leave alone
non_timing == <<all_engine, mixer_vars, wav_vars, ui_vars>>
non_mixer == <<all_engine, timing_vars, wav_vars, ui_vars>>
non_wav == <<all_engine, timing_vars, mixer_vars, ui_vars>>
non_bind == <<all_engine, timing_vars, mixer_vars, wav_vars, midi_vars, edit_vars,
              file_vars, cache_vars, play_vars>>
non_midi == <<all_engine, timing_vars, mixer_vars, wav_vars, bind_vars, edit_vars,
              file_vars, cache_vars, play_vars>>
non_edit == <<thread, cfg_vars, ctl_vars, pc, beat, iter_vars, ci_vars, last_step, timing_vars,
              mixer_vars, wav_vars, bind_vars, midi_vars, file_vars, cache_vars, play_vars>>
non_file == <<all_engine, timing_vars, mixer_vars, wav_vars, bind_vars, midi_vars,
              edit_vars, cache_vars, play_vars>>
non_play == <<all_engine, timing_vars, mixer_vars, wav_vars, bind_vars, midi_vars,
              edit_vars, file_vars, cache_vars>>
\* what the play/stop key and the engine under it leave alone
app_rest == <<timing_vars, mixer_vars, wav_vars, bind_vars, midi_vars, edit_vars,
              file_vars, cache_vars>>
non_cache == <<all_engine, timing_vars, mixer_vars, wav_vars, bind_vars, midi_vars,
               edit_vars, file_vars, play_vars>>

\* threading.Thread.is_alive
is_alive(t) == pc[t] # "dead"

Alive == {t \in Threads : is_alive(t)}

\* SequencerEngine.__init__ and a freshly loaded sequence
EngineInit ==
    /\ playing = FALSE
    /\ stop_event = FALSE
    /\ current_step = 0
    /\ pending_pattern = None
    /\ thread = 0
    /\ active_pattern = 0
    /\ patterns = InitPatterns
    /\ metronome_enabled \in BOOLEAN
    /\ accent_beat_1 \in BOOLEAN
    /\ calls = 0
    /\ ctl = "idle"
    /\ pc = [t \in Threads |-> "dead"]
    /\ beat = [t \in Threads |-> 0]
    /\ iter_step = [t \in Threads |-> None]
    /\ fired = [t \in Threads |-> {}]
    /\ click = [t \in Threads |-> "none"]
    /\ ci_beats = [t \in Threads |-> <<>>]
    /\ ci_clicks = [t \in Threads |-> <<>>]
    /\ last_step = None

\* ------------------------------------------------- the controlling thread
\* the controlling thread is free to make its next call
Call == ctl = "idle" /\ calls < MaxCalls /\ calls' = calls + 1

\* the slot the next threading.Thread object takes
NewThread == CHOOSE t \in Threads : ~is_alive(t) /\ \A u \in Threads : ~is_alive(u) => t <= u

\* start(), lines 95-97: clear the stop flag, create the thread and start it
Spawn ==
    /\ stop_event' = FALSE
    /\ thread' = NewThread
    /\ pc' = [pc EXCEPT ![NewThread] = "run"]
    /\ ctl' = "idle"
    /\ UNCHANGED <<playing, current_step, pending_pattern>>
    /\ UNCHANGED <<seq_vars, cfg_vars, beat, iter_vars, ci_vars, last_step>>

\* start(), line 90: if self._playing: return
StartGuard == playing

\* start() returning at its guard, lines 90-91
StartNoop ==
    /\ Call
    /\ StartGuard
    /\ UNCHANGED <<engine_vars, seq_vars, cfg_vars, ctl, pc, beat, iter_vars, ci_vars,
                   last_step>>

\* start() with no previous thread alive (line 93 false): lines 95-97 at once
StartSpawn ==
    /\ Call
    /\ ~StartGuard
    /\ Cardinality(Alive) < MaxThreads
    /\ ~(thread # 0 /\ is_alive(thread))
    /\ Spawn

\* start() reaching line 94: the previous thread is alive, join it for up to 1 s
StartJoin ==
    /\ Call
    /\ ~StartGuard
    /\ Cardinality(Alive) < MaxThreads
    /\ thread # 0 /\ is_alive(thread)
    /\ ctl' = "joining"
    /\ UNCHANGED <<engine_vars, seq_vars, cfg_vars, pc, beat, iter_vars, ci_vars,
                   last_step>>

\* line 94, join(timeout=1.0), returns: the thread has exited, or the second
\* has elapsed with the thread still alive.  A thread never leaves _run unless
\* the stop flag is set, so without the flag the join always times out; with
\* the flag set the thread leaves its wait at once and returns within the second.
JoinReturns == ~is_alive(thread) \/ ~stop_event

\* start() after the join, lines 95-97
JoinReturn ==
    /\ ctl = "joining"
    /\ JoinReturns
    /\ Spawn
    /\ UNCHANGED calls

\* stop(), lines 106-108: set the flag, reset the state, never wait
Stop ==
    /\ Call
    /\ stop_event' = TRUE
    /\ playing' = FALSE
    /\ current_step' = 0
    /\ UNCHANGED <<pending_pattern, thread, seq_vars, cfg_vars, ctl, pc, beat,
                   iter_vars, ci_vars, last_step>>

\* queue_pattern_switch(index), lines 85-86
queue_pattern_switch(index) ==
    /\ Call
    /\ pending_pattern' = IF 0 <= index /\ index < Len(patterns) THEN index
                          ELSE pending_pattern
    /\ UNCHANGED <<playing, stop_event, current_step, thread, seq_vars, cfg_vars, ctl, pc,
                   beat, iter_vars, ci_vars, last_step>>

\* action_toggle_metronome
action_toggle_metronome ==
    /\ Call
    /\ metronome_enabled' = ~metronome_enabled
    /\ UNCHANGED <<engine_vars, seq_vars, accent_beat_1, ctl, pc, beat, iter_vars,
                   ci_vars, last_step>>

\* --------------------------------------------------- a timing thread: _run
\* thread t moves to position p
Goto(t, p) == pc' = [pc EXCEPT ![t] = p]

\* thread t ends (_run returns, or an exception leaves it): its locals are gone
Finish(t) ==
    /\ pc' = [pc EXCEPT ![t] = "dead"]
    /\ beat' = [beat EXCEPT ![t] = 0]
    /\ iter_step' = [iter_step EXCEPT ![t] = None]
    /\ fired' = [fired EXCEPT ![t] = {}]
    /\ click' = [click EXCEPT ![t] = "none"]
    /\ ci_beats' = [ci_beats EXCEPT ![t] = <<>>]
    /\ ci_clicks' = [ci_clicks EXCEPT ![t] = <<>>]

\* lines 116-120: the count-in branches on metronome_cfg.enabled, read once
RunEnter(t) ==
    /\ pc[t] = "run"
    /\ IF metronome_enabled
       THEN Goto(t, "ci_check") /\ beat' = [beat EXCEPT ![t] = 1]
       ELSE Goto(t, "ci_silent") /\ UNCHANGED beat
    /\ UNCHANGED <<engine_vars, seq_vars, cfg_vars, ctl_vars, iter_vars, ci_vars, last_step>>

\* lines 127-130 and 181-184: which click a beat gets
ClickFor(beat_num) == IF accent_beat_1 /\ beat_num = 1 THEN "accent" ELSE "normal"

\* lines 124-132: one beat of the count-in: return if stop was requested, else
\* submit the beat's click and call on_count_in_beat(beat)
CountInBeat(t) ==
    /\ pc[t] = "ci_check"
    /\ IF stop_event
       THEN Finish(t)
       ELSE /\ ci_clicks' = [ci_clicks EXCEPT ![t] = Append(@, ClickFor(beat[t]))]
            /\ ci_beats' = [ci_beats EXCEPT ![t] = Append(@, beat[t])]
            /\ Goto(t, "ci_wait")
            /\ UNCHANGED <<beat, iter_vars>>
    /\ UNCHANGED <<engine_vars, seq_vars, cfg_vars, ctl_vars, last_step>>

\* lines 135-137: the wait for the next beat is cut short by the stop flag
CountInWaitStopped(t) ==
    /\ pc[t] = "ci_wait"
    /\ stop_event
    /\ Finish(t)
    /\ UNCHANGED <<engine_vars, seq_vars, cfg_vars, ctl_vars, last_step>>

\* line 123: range(1, beats_per_bar + 1) has a beat after b
CountInMore(b) == b < BeatsPerBar

\* lines 133-137 and 123: the beat interval has elapsed (or the thread is late
\* and does not wait at all): on to the next beat, or out of the loop
CountInWaitElapsed(t) ==
    /\ pc[t] = "ci_wait"
    /\ IF CountInMore(beat[t])
       THEN Goto(t, "ci_check") /\ beat' = [beat EXCEPT ![t] = @ + 1]
       ELSE Goto(t, "pb_play") /\ beat' = [beat EXCEPT ![t] = 0]
    /\ UNCHANGED <<engine_vars, seq_vars, cfg_vars, ctl_vars, iter_vars, ci_vars, last_step>>

\* lines 140-142: the silent count-in, one wait of a bar's duration
CountInSilent(t) ==
    /\ pc[t] = "ci_silent"
    /\ IF stop_event
       THEN Finish(t)
       ELSE Goto(t, "pb_play") /\ UNCHANGED <<beat, iter_vars, ci_vars>>
    /\ UNCHANGED <<engine_vars, seq_vars, cfg_vars, ctl_vars, last_step>>

\* line 145: self._playing = True
PlaybackBegin(t) ==
    /\ pc[t] = "pb_play"
    /\ playing' = TRUE
    /\ Goto(t, "pb_start")
    /\ UNCHANGED <<stop_event, current_step, pending_pattern, thread, seq_vars, cfg_vars,
                   ctl_vars, beat, iter_vars, ci_vars, last_step>>

\* lines 146-151: self._current_step = 0, then on_playback_start()
PlaybackStarted(t) ==
    /\ pc[t] = "pb_start"
    /\ current_step' = 0
    /\ last_step' = None
    /\ ci_beats' = [ci_beats EXCEPT ![t] = <<>>]
    /\ ci_clicks' = [ci_clicks EXCEPT ![t] = <<>>]
    /\ Goto(t, "loop")
    /\ UNCHANGED <<playing, stop_event, pending_pattern, thread, seq_vars, cfg_vars, ctl_vars,
                   beat, iter_vars>>

\* the loop condition of a thread that never checks the stop flag (while True)
LoopContinues_Always == TRUE

\* line 153: while not self._stop_event.is_set()
LoopContinues == ~stop_event

\* line 158: a pending switch is applied in this iteration
AtBarBoundary == current_step = 0 /\ pending_pattern # None

\* lines 153-158: the loop condition (the cancellation check of every step) and,
\* when it holds, the start of the iteration for the step _current_step holds
LoopCheck(t) ==
    /\ pc[t] = "loop"
    /\ IF LoopContinues
       THEN /\ iter_step' = [iter_step EXCEPT ![t] = current_step]
            /\ IF AtBarBoundary THEN Goto(t, "apply") ELSE Goto(t, "pads")
       ELSE Goto(t, "exit") /\ UNCHANGED iter_step
    /\ UNCHANGED <<engine_vars, seq_vars, cfg_vars, ctl_vars, beat, fired, click, ci_vars,
                   last_step>>

\* line 159: self.sequence.active_pattern = self._pending_pattern
ApplyPending(t) ==
    /\ pc[t] = "apply"
    /\ active_pattern' = pending_pattern
    /\ Goto(t, "clear")
    /\ UNCHANGED <<engine_vars, patterns, cfg_vars, ctl_vars, beat, iter_vars, ci_vars,
                   last_step>>

\* line 160: self._pending_pattern = None
ClearPending(t) ==
    /\ pc[t] = "clear"
    /\ pending_pattern' = None
    /\ Goto(t, "pads")
    /\ UNCHANGED <<playing, stop_event, current_step, thread, seq_vars, cfg_vars, ctl_vars,
                   beat, iter_vars, ci_vars, last_step>>

\* lines 163-167: the entries of the pattern at index i, none when i is out of range
Items(i) == IF 0 <= i /\ i < Len(patterns) THEN patterns[i + 1] ELSE <<>>

\* lines 172-174: is the pad of entry e (<<pad, steps>>) fired at step s
Fires(e, s) == s < Len(e[2]) /\ e[2][s + 1] # 0 /\ e[1] \in sample_cache

\* lines 171-175: the pads of pattern i submitted to the mixer at step s
Submitted(i, s) == {Items(i)[k][1] : k \in {j \in 1..Len(Items(i)) : Fires(Items(i)[j], s)}}

\* lines 163-175: pick the active pattern and fire its samples for the step.
\* 0 <= None raises TypeError, which ends the thread.
FirePads(t) ==
    /\ pc[t] = "pads"
    /\ IF active_pattern = None
       THEN Finish(t)
       ELSE /\ fired' = [fired EXCEPT ![t] = Submitted(active_pattern, current_step)]
            /\ Goto(t, "metro")
            /\ UNCHANGED <<beat, iter_step, click, ci_vars>>
    /\ UNCHANGED <<engine_vars, seq_vars, cfg_vars, ctl_vars, last_step>>

\* line 179: the step falls on a beat
OnBeat(s) == s % StepsPerBeat = 0

\* line 180: beat_num = self._current_step // steps_per_beat + 1
BeatNum(s) == (s \div StepsPerBeat) + 1

\* lines 178-184: the click submitted at step s, if any
StepClick(s) == IF metronome_enabled /\ OnBeat(s) THEN ClickFor(BeatNum(s)) ELSE "none"

\* lines 178-188: the metronome click of the step, then on_step(self._current_step)
MetroNotify(t) ==
    /\ pc[t] = "metro"
    /\ click' = [click EXCEPT ![t] = StepClick(current_step)]
    /\ last_step' = current_step
    /\ Goto(t, "advance")
    /\ UNCHANGED <<engine_vars, seq_vars, cfg_vars, ctl_vars, beat, iter_step, fired, ci_vars>>

\* line 191: the step after s
NextStep(s) == (s + 1) % total_steps

\* line 191: self._current_step = (self._current_step + 1) % total_steps
AdvanceStep(t) ==
    /\ pc[t] = "advance"
    /\ current_step' = NextStep(current_step)
    /\ iter_step' = [iter_step EXCEPT ![t] = None]
    /\ fired' = [fired EXCEPT ![t] = {}]
    /\ click' = [click EXCEPT ![t] = "none"]
    /\ Goto(t, "sleep")
    /\ UNCHANGED <<playing, stop_event, pending_pattern, thread, seq_vars, cfg_vars, ctl_vars,
                   beat, ci_vars, last_step>>

\* lines 196-198: the sleep until the next step is cut short by the stop flag
StepSleepStopped(t) ==
    /\ pc[t] = "sleep"
    /\ stop_event
    /\ Goto(t, "exit")
    /\ UNCHANGED <<engine_vars, seq_vars, cfg_vars, ctl_vars, beat, iter_vars, ci_vars,
                   last_step>>

\* lines 194-198: the step interval has elapsed (or the thread is late)
StepSleepElapsed(t) ==
    /\ pc[t] = "sleep"
    /\ Goto(t, "loop")
    /\ UNCHANGED <<engine_vars, seq_vars, cfg_vars, ctl_vars, beat, iter_vars, ci_vars,
                   last_step>>

\* lines 200-201: self._playing = False, self._current_step = 0, and _run returns
ExitRun(t) ==
    /\ pc[t] = "exit"
    /\ playing' = FALSE
    /\ current_step' = 0
    /\ Finish(t)
    /\ UNCHANGED <<stop_event, pending_pattern, thread, seq_vars, cfg_vars, ctl_vars, last_step>>

\* one step of timing thread t
ThreadStep(t) ==
    \/ RunEnter(t)
    \/ CountInBeat(t)
    \/ CountInWaitStopped(t)
    \/ CountInWaitElapsed(t)
    \/ CountInSilent(t)
    \/ PlaybackBegin(t)
    \/ PlaybackStarted(t)
    \/ LoopCheck(t)
    \/ ApplyPending(t)
    \/ ClearPending(t)
    \/ FirePads(t)
    \/ MetroNotify(t)
    \/ AdvanceStep(t)
    \/ StepSleepStopped(t)
    \/ StepSleepElapsed(t)
    \/ ExitRun(t)

\* the inputs of queue_pattern_switch: every index and the two just out of range
QueueInputs == (0 - 1)..MaxPatterns

\* ======================================================================
\* The playback loop's clock: _run, lines 150-198, with time in milliseconds
\* ======================================================================
MaxSteps == 1000
MaxTempoSteps == 4
MaxBpm == 125

\* SequenceFile.bpm and SequenceFile.steps_per_beat as created
DefaultBpm == 120
DefaultStepsPerBeat == 4

\* milliseconds in a minute: the 60.0 (seconds) of line 112
MinuteMs == 60000

\* what time.perf_counter() may read when playback starts
StartTimes == {0, 7}

\* how late Event.wait(timeout) may return: on time, or later than a whole step
Jitters == {0, 200}

\* _step_interval, line 112: 60.0 / bpm / steps_per_beat
_step_interval(b, spb) == (MinuteMs \div b) \div spb

\* no timed loop is running
TimingOff ==
    /\ bpm = DefaultBpm /\ now = 0 /\ next_time = 0 /\ t_pc = "off" /\ t_start = 0
    /\ steps = 0 /\ sum_intervals = 0 /\ tempo_changed = FALSE /\ sleeps = "none"
    /\ late = 0 /\ changed_at = "none"

\* the clock reads some value when the thread reaches line 151
TimingInit ==
    /\ bpm = DefaultBpm /\ now \in StartTimes /\ next_time = 0 /\ t_pc = "off"
    /\ t_start = 0 /\ steps = 0 /\ sum_intervals = 0 /\ tempo_changed = FALSE
    /\ sleeps = "none" /\ late = 0 /\ changed_at = "none"

\* line 151: next_time = time.perf_counter()
TimedPlaybackStart ==
    /\ t_pc = "off" /\ ~stop_event
    /\ next_time' = now
    /\ t_start' = now
    /\ t_pc' = "loop"
    /\ UNCHANGED <<bpm, now, steps, sum_intervals, tempo_changed, changed_at, sleeps, late>>
    /\ UNCHANGED non_timing

\* a loop that sleeps for the interval and takes its next target from the clock
NextTarget_FromNow(target, clock, interval) == clock + interval

\* line 194: next_time += interval
NextTarget(target, clock, interval) == target + interval

\* line 196: if sleep_dur > 0 (with sleep_dur = next_time - time.perf_counter())
MustSleep(target, clock) == target - clock > 0

\* a loop that keeps the tempo the sequence was created with
IntervalBpm_AtCreation == DefaultBpm

\* line 155 reads self.sequence.bpm anew in every iteration
IntervalBpm == bpm

\* lines 153-196: one iteration: leave the loop if stop was requested; else
\* compute the interval, do the step, move the target and decide on the sleep
TimedIteration ==
    /\ t_pc = "loop"
    /\ IF stop_event
       THEN /\ t_pc' = "done"
            /\ UNCHANGED <<next_time, steps, sum_intervals, sleeps, late>>
       ELSE /\ steps < MaxSteps
            /\ next_time' = NextTarget(next_time, now,
                                        _step_interval(IntervalBpm, DefaultStepsPerBeat))
            /\ sum_intervals' = sum_intervals + _step_interval(IntervalBpm, DefaultStepsPerBeat)
            /\ steps' = steps + 1
            /\ IF MustSleep(next_time', now)
               THEN t_pc' = "wait" /\ UNCHANGED <<sleeps, late>>
               ELSE t_pc' = "loop" /\ sleeps' = "skipped" /\ late' = now - next_time'
    /\ UNCHANGED <<bpm, now, t_start, tempo_changed, changed_at>>
    /\ UNCHANGED non_timing

\* lines 197-198: the wait times out: the thread wakes at the target or later
TimedWake ==
    /\ t_pc = "wait"
    /\ \E j \in Jitters : now' = next_time + j /\ late' = j
    /\ sleeps' = "slept"
    /\ t_pc' = "loop"
    /\ UNCHANGED <<bpm, next_time, t_start, steps, sum_intervals, tempo_changed, changed_at>>
    /\ UNCHANGED non_timing

\* lines 197-198: the wait is cut short by the stop flag: break
TimedWaitStopped ==
    /\ t_pc = "wait" /\ stop_event
    /\ t_pc' = "done"
    /\ UNCHANGED <<bpm, now, next_time, t_start, steps, sum_intervals, tempo_changed,
                   changed_at, sleeps,
                   late>>
    /\ UNCHANGED non_timing

\* the limits and the step of action_bpm_up and action_bpm_down
BpmCeiling == 300
BpmFloor == 20
BpmStep == 5

Min(a, b) == IF a < b THEN a ELSE b
Max(a, b) == IF a > b THEN a ELSE b

\* the tempo keys are pressed during the first steps of playback only
TempoKeys == steps < MaxTempoSteps

\* action_bpm_up: self.sequence.bpm = min(300, self.sequence.bpm + 5)
action_bpm_up ==
    /\ TempoKeys /\ bpm < MaxBpm
    /\ bpm' = Min(BpmCeiling, bpm + BpmStep)
    /\ tempo_changed' = TRUE
    /\ changed_at' = t_pc
    /\ UNCHANGED <<now, next_time, t_pc, t_start, steps, sum_intervals, sleeps, late>>
    /\ UNCHANGED non_timing

\* action_bpm_down: self.sequence.bpm = max(20, self.sequence.bpm - 5)
action_bpm_down ==
    /\ TempoKeys /\ bpm > DefaultBpm
    /\ bpm' = Max(BpmFloor, bpm - BpmStep)
    /\ tempo_changed' = TRUE
    /\ changed_at' = t_pc
    /\ UNCHANGED <<now, next_time, t_pc, t_start, steps, sum_intervals, sleeps, late>>
    /\ UNCHANGED non_timing

\* ======================================================================
\* The audio mixer: AudioPlayer (audio/playback.py)
\* ======================================================================
MaxCallers == 2
MaxSubmits == 3
FrameCount == 2

\* AudioPlayer.CHANNELS
CHANNELS == 2

Callers == 1..MaxCallers

\* Sample values are in tenths (10 is 1.0), mixed output in hundredths (100 is
\* 1.0), so that the gain of 0.7 is exact: 0.7 * (x / 10) = 7 * x / 100.
GainNum == 7
FullScale == 100

\* the buffers submitted: arrays of shape (frames, ch), one row per frame
ShortBuf == [ch |-> 2, frames |-> << <<9, 0 - 9>> >>]
LongBuf == [ch |-> 2, frames |-> << <<10, 10>>, <<10, 0 - 4>>, <<0 - 3, 2>> >>]
\* what load_wav returns for a file of three channels at the engine rate
WideBuf == [ch |-> 3, frames |-> << <<5, 5, 5>> >>]
\* what load_wav returns after an error: shape (0, 2)
EmptyBuf == [ch |-> 2, frames |-> <<>>]

\* no array: play_data(None)
NoData == [ch |-> 0, frames |-> <<>>]

Buffers == {ShortBuf, LongBuf, WideBuf, EmptyBuf, NoData}

\* the status flags the backend may pass to the callback
StatusFlags == {0, 1, 4}

\* the lock owner that stands for the audio callback thread
CallbackId == MaxCallers + 1

\* line 55: np.zeros((frame_count, self.CHANNELS))
ZeroOut == [f \in 1..FrameCount |-> [c \in 1..CHANNELS |-> 0]]

\* AudioPlayer.__init__: the stream is open and started, no voice is active
MixerInit ==
    /\ active_voices = <<>>
    /\ lock = 0
    /\ stream = "active"
    /\ p_pc = [c \in Callers |-> "idle"]
    /\ p_data = [c \in Callers |-> EmptyBuf]
    /\ cb_pc = "idle"
    /\ cb_i = 0
    /\ out_data = ZeroOut
    /\ cb_status = 0
    /\ cycle_voices = <<>>
    /\ cb_result = "none"
    /\ output = <<>>
    /\ n_returned = 0
    /\ n_added = 0
    /\ app = "running"
    /\ n_close = 0
    /\ n_terminate = 0
    /\ cleanup_error = FALSE

\* len(data)
Length(data) == Len(data.frames)

\* a play_data that accepts whatever it is given
IsEmpty_Never(data) == FALSE

\* line 32: if data is None or len(data) == 0
IsEmpty(data) == data = NoData \/ Length(data) = 0

\* line 35 or 57, with self.lock: the thread takes the lock if it is free
Acquire(who) == lock = 0 /\ lock' = who

\* play_data, lines 32-35: return at once for an empty buffer, else go for the lock
play_data(c, data) ==
    /\ p_pc[c] = "idle"
    /\ n_returned < MaxSubmits
    /\ IF IsEmpty(data)
       THEN /\ n_returned' = n_returned + 1
            /\ UNCHANGED <<lock, p_pc, p_data, n_added>>
       ELSE /\ p_data' = [p_data EXCEPT ![c] = data]
            /\ IF lock = 0
               THEN Acquire(c) /\ p_pc' = [p_pc EXCEPT ![c] = "append"]
               ELSE UNCHANGED lock /\ p_pc' = [p_pc EXCEPT ![c] = "blocked"]
            /\ UNCHANGED <<n_returned, n_added>>
    /\ UNCHANGED <<active_voices, stream, cb_vars, shutdown_vars>>
    /\ UNCHANGED non_mixer

\* line 35: a caller blocked on the lock gets it
PlayAcquire(c) ==
    /\ p_pc[c] = "blocked"
    /\ Acquire(c)
    /\ p_pc' = [p_pc EXCEPT ![c] = "append"]
    /\ UNCHANGED <<active_voices, stream, p_data, n_returned, n_added, cb_vars, shutdown_vars>>
    /\ UNCHANGED non_mixer

\* line 36: append {"data": data, "idx": 0}, release the lock and return
PlayAppend(c) ==
    /\ p_pc[c] = "append"
    /\ active_voices' = Append(active_voices, [data |-> p_data[c], idx |-> 0])
    /\ lock' = 0
    /\ p_pc' = [p_pc EXCEPT ![c] = "idle"]
    /\ n_returned' = n_returned + 1
    /\ n_added' = n_added + 1
    /\ UNCHANGED <<stream, p_data, cb_vars, shutdown_vars>>
    /\ UNCHANGED non_mixer

\* line 59: the backward pass starts at the last voice
StartPass ==
    /\ lock' = CallbackId
    /\ cb_pc' = "mix"
    /\ cb_i' = Len(active_voices)
    /\ cycle_voices' = active_voices

\* lines 55-57: the backend asks for frame_count frames: zero the output buffer
\* and go for the lock
CallbackEnter ==
    /\ stream = "active" /\ cb_pc = "idle"
    /\ \E st \in StatusFlags : cb_status' = st
    /\ out_data' = ZeroOut
    /\ cb_result' = "none"
    /\ output' = <<>>
    /\ IF lock = 0 THEN StartPass
       ELSE cb_pc' = "blocked" /\ UNCHANGED <<lock, cb_i, cycle_voices>>
    /\ UNCHANGED <<active_voices, stream, caller_vars, shutdown_vars>>
    /\ UNCHANGED non_mixer

\* line 57: the callback, blocked on the lock, gets it
CallbackAcquire ==
    /\ cb_pc = "blocked" /\ lock = 0
    /\ StartPass
    /\ UNCHANGED <<active_voices, stream, caller_vars, out_data, cb_status, cb_result, output,
                   shutdown_vars>>
    /\ UNCHANGED non_mixer

\* line 65: remaining = len(data) - idx
Remaining(v) == Length(v.data) - v.idx

\* line 66: to_read = min(frame_count, remaining)
ToRead(v) == Min(FrameCount, Remaining(v))

\* line 71: out_data[:to_read] += chunk needs rows of CHANNELS values
Broadcasts(v) == v.data.ch = CHANNELS

\* lines 70-71: out_data[:to_read] += data[idx : idx + to_read]
AddChunk(out, v) ==
    [f \in 1..FrameCount |->
        IF f <= ToRead(v)
        THEN [c \in 1..CHANNELS |-> out[f][c] + v.data.frames[v.idx + f][c]]
        ELSE out[f]]

\* list.pop(i)
Pop(s, i) == [k \in 1..(Len(s) - 1) |-> IF k < i THEN s[k] ELSE s[k + 1]]

\* lines 72-76: advance the voice at i and drop it once finished
Advance(voices, i) ==
    IF voices[i].idx + ToRead(voices[i]) >= Length(voices[i].data)
    THEN Pop(voices, i)
    ELSE [voices EXCEPT ![i].idx = @ + ToRead(voices[i])]

\* lines 60-76: one voice of the backward pass; the addition raises ValueError
\* when the chunk's shape does not broadcast, which leaves the with block
\* (releasing the lock) and the callback
MixVoice ==
    /\ cb_pc = "mix" /\ cb_i > 0
    /\ IF ToRead(active_voices[cb_i]) > 0 /\ ~Broadcasts(active_voices[cb_i])
       THEN /\ cb_result' = "raised"
            /\ lock' = 0
            /\ cb_pc' = "idle"
            /\ stream' = "stopped"
            /\ cb_i' = 0
            /\ UNCHANGED <<active_voices, out_data>>
       ELSE /\ out_data' = IF ToRead(active_voices[cb_i]) > 0
                           THEN AddChunk(out_data, active_voices[cb_i]) ELSE out_data
            /\ active_voices' = Advance(active_voices, cb_i)
            /\ cb_i' = cb_i - 1
            /\ UNCHANGED <<lock, cb_pc, stream, cb_result>>
    /\ UNCHANGED <<caller_vars, cb_status, cycle_voices, output, shutdown_vars>>
    /\ UNCHANGED non_mixer

\* line 79: out_data * 0.7
Gain(x) == GainNum * x

\* line 82: np.clip(out_data, -1.0, 1.0)
Clip(x) == Max(0 - FullScale, Min(FullScale, x))

\* lines 77-84: the pass is over: release the lock, apply gain and clip, return
\* (bytes, paContinue) whatever the status was
CallbackReturn ==
    /\ cb_pc = "mix" /\ cb_i = 0
    /\ lock' = 0
    /\ output' = [f \in 1..FrameCount |-> [c \in 1..CHANNELS |-> Clip(Gain(out_data[f][c]))]]
    /\ cb_result' = "continue"
    /\ cb_pc' = "idle"
    /\ UNCHANGED <<active_voices, stream, caller_vars, cb_i, out_data, cb_status, cycle_voices,
                   shutdown_vars>>
    /\ UNCHANGED non_mixer

\* cleanup(), lines 48-51, on a stream that is still open: stop it if it is
\* active, close it, terminate PyAudio
CleanupOpen ==
    /\ stream' = "closed"
    /\ n_close' = n_close + 1
    /\ n_terminate' = n_terminate + 1
    /\ UNCHANGED cleanup_error

\* cleanup(), lines 48-51, without any guard, on a stream already closed: the
\* library either raises at is_active() or lets close and terminate run again
CleanupClosed ==
    /\ UNCHANGED stream
    /\ \E raises \in BOOLEAN :
          IF raises
          THEN cleanup_error' = TRUE /\ UNCHANGED <<n_close, n_terminate>>
          ELSE /\ n_close' = n_close + 1
               /\ n_terminate' = n_terminate + 1
               /\ UNCHANGED cleanup_error

\* AudioPlayer.cleanup; stop_stream returns once the running callback has returned
cleanup ==
    /\ cb_pc = "idle"
    /\ IF stream = "closed" THEN CleanupClosed ELSE CleanupOpen

\* engine.stop() as the shutdown handlers call it: lines 106-108
EngineStop ==
    /\ stop_event' = TRUE
    /\ playing' = FALSE
    /\ current_step' = 0
    /\ UNCHANGED <<pending_pattern, thread, seq_vars, cfg_vars, ctl_vars, pc, beat, iter_vars,
                   ci_vars, last_step>>

\* SequencerApp.action_quit: engine.stop(), audio.cleanup(), exit()
action_quit ==
    /\ app = "running"
    /\ EngineStop
    /\ cleanup
    /\ app' = "quit"
    /\ UNCHANGED <<active_voices, lock, caller_vars, cb_vars, timing_vars, wav_vars, ui_vars>>

\* SequencerApp.on_unmount: engine.stop(), audio.cleanup()
on_unmount ==
    /\ app \in {"running", "quit"}
    /\ EngineStop
    /\ cleanup
    /\ app' = "unmounted"
    /\ UNCHANGED <<active_voices, lock, caller_vars, cb_vars, timing_vars, wav_vars, ui_vars>>

\* ======================================================================
\* The WAV decoder: AudioPlayer.load_wav (audio/playback.py, lines 86-146)
\* ======================================================================
MaxRawBytes == 4
MaxFrames == 4
MaxChannels == 3
MaxWidth == 4

\* AudioPlayer.RATE
RATE == 44100

\* the frame rates of the files: the engine's, half of it, twice it
Rates == {RATE, 22050, 88200}

\* the bytes the files are made of
ByteVals == {0, 127, 128, 255}

\* Decoded samples are kept in units of 2^-23, so that 8-, 16- and 24-bit
\* samples are all whole numbers: One is 1.0.
One == 2 ^ 23

\* byte strings of length n
RawOfLen(n) == [1..n -> ByteVals]

\* a file that cannot be opened
MissingFile == [exists |-> FALSE, channels |-> 1, rate |-> RATE, width |-> 2, n_frames |-> 0,
                raw |-> <<>>]

\* the files that open: the header's fields and what readframes(n_frames)
\* returns, which is never more than n_frames frames
OpenFiles ==
    {f \in [exists : {TRUE}, channels : 1..MaxChannels, rate : Rates, width : 1..MaxWidth,
            n_frames : 0..MaxFrames, raw : UNION {RawOfLen(n) : n \in 0..MaxRawBytes}] :
        Len(f.raw) <= f.n_frames * f.channels * f.width}

WavFiles == {MissingFile} \cup OpenFiles

\* the value of an exception leaving a function
Raised == [raised |-> TRUE, ch |-> 0, frames |-> <<>>]

\* an array of shape (len(rows), ch)
Array(ch, rows) == [raised |-> FALSE, ch |-> ch, frames |-> rows]

\* line 146: np.zeros((0, 2))
EmptyStereo == Array(2, <<>>)

\* no file is being decoded
WavOff == wav_file = MissingFile /\ wav_pc = "ready" /\ wav_result = EmptyStereo

WavInit == wav_file \in WavFiles /\ wav_pc = "ready" /\ wav_result = EmptyStereo

\* a byte read as a signed 8-bit value
SignedByte(b) == IF b >= 128 THEN b - 256 ELSE b

\* a decoder that reads the two bytes most significant first
Int16BE(a0, a1) == a1 + SignedByte(a0) * 256

\* np.frombuffer(..., dtype=np.int16) on two bytes, little-endian
Int16LE(a0, a1) == a0 + SignedByte(a1) * 256

\* np.frombuffer(..., dtype=np.int32) on four bytes, little-endian
Int32LE(a) == a[1] + a[2] * 256 + a[3] * 65536 + SignedByte(a[4]) * 16777216

\* a decoder that pads after the most significant byte: [b0, b1, b2, 0]
Padded_AtEnd(b0, b1, b2) == <<b0, b1, b2, 0>>

\* line 115: np.pad(chunks, ((0, 0), (1, 0))): [0, b0, b1, b2]
Padded(b0, b1, b2) == <<0, b0, b1, b2>>

\* lines 100-119: can the raw bytes be read as samples of this width
Decodable(width, raw) ==
    \/ width = 1
    \/ width = 2 /\ Len(raw) % 2 = 0
    \/ width = 3 /\ Len(raw) % 3 = 0

\* lines 100-117: the samples of the raw bytes, in units of 2^-23
\* (int16 / 32768, (uint8 - 128) / 128, int32 / 2147483648)
Samples(width, raw) ==
    IF width = 2
    THEN [k \in 1..(Len(raw) \div 2) |-> Int16LE(raw[2 * k - 1], raw[2 * k]) * 256]
    ELSE IF width = 1
    THEN [k \in 1..Len(raw) |-> (raw[k] - 128) * 65536]
    ELSE [k \in 1..(Len(raw) \div 3) |->
              Int32LE(Padded(raw[3 * k - 2], raw[3 * k - 1], raw[3 * k])) \div 256]

\* lines 122-126: can the samples be laid out in rows
Reshapable(channels, samples) == channels = 1 \/ Len(samples) % channels = 0

\* lines 122-126: column_stack for mono, reshape(-1, channels) otherwise
Reshape(channels, samples) ==
    IF channels = 1
    THEN [k \in 1..Len(samples) |-> <<samples[k], samples[k]>>]
    ELSE [k \in 1..(Len(samples) \div channels) |->
              [c \in 1..channels |-> samples[(k - 1) * channels + c]]]

\* lines 130-131: new_n_frames = int(n_frames / rate * RATE)
NewFrames(n_frames, rate) == (n_frames * RATE) \div rate

\* lines 133-138: np.interp needs sample points, and as many as values
Interpolable(n_frames, rows) == n_frames > 0 /\ Len(rows) = n_frames

\* lines 133-138: np.interp of column c at the j-th (0-based) of m points spread
\* over the n points of the file: linear between the two neighbours
Interp(rows, c, j, m) ==
    IF Len(rows) = 1 \/ m = 1 THEN rows[1][c]
    ELSE IF (j * (Len(rows) - 1)) \div (m - 1) >= Len(rows) - 1 THEN rows[Len(rows)][c]
    ELSE rows[(j * (Len(rows) - 1)) \div (m - 1) + 1][c]
         + ((rows[(j * (Len(rows) - 1)) \div (m - 1) + 2][c]
               - rows[(j * (Len(rows) - 1)) \div (m - 1) + 1][c])
            * ((j * (Len(rows) - 1)) % (m - 1))) \div (m - 1)

\* lines 136-138: the (new_n_frames, 2) array of the first two columns
Resample(rows, m) == [j \in 1..m |-> [c \in 1..2 |-> Interp(rows, c, j - 1, m)]]

\* lines 91-142, the body of the try: the array returned, or Raised
Body(f) ==
    IF ~f.exists THEN Raised
    ELSE IF ~Decodable(f.width, f.raw) THEN Raised
    ELSE IF ~Reshapable(f.channels, Samples(f.width, f.raw)) THEN Raised
    ELSE IF f.rate = RATE
         THEN Array(IF f.channels = 1 THEN 2 ELSE f.channels,
                    Reshape(f.channels, Samples(f.width, f.raw)))
    ELSE IF ~Interpolable(f.n_frames, Reshape(f.channels, Samples(f.width, f.raw)))
         THEN Raised
    ELSE Array(2, Resample(Reshape(f.channels, Samples(f.width, f.raw)),
                           NewFrames(f.n_frames, f.rate)))

\* a decoder without the except clause: the exception reaches the caller
OnException_Reraise == Raised

\* lines 144-146: except Exception: return np.zeros((0, 2))
OnException == EmptyStereo

\* load_wav, lines 90-146
load_wav(f) == IF Body(f) = Raised THEN OnException ELSE Body(f)

\* one call of load_wav on the file
LoadWav ==
    /\ wav_pc = "ready"
    /\ wav_result' = load_wav(wav_file)
    /\ wav_pc' = "loaded"
    /\ UNCHANGED wav_file
    /\ UNCHANGED non_wav

\* ======================================================================
\* MIDI bindings: parse_midibind and midi_msg_matches (midi/__init__.py),
\* the binding map (tui/app.py, lines 145-158) and the poll loop's matching
\* (tui/app.py, lines 333-346)
\* ======================================================================
\* \d, over the characters of the model
Digits == {"0", "3", "6", "9"}

\* the value of a decimal digit
DigitVal(ch) == CASE ch = "0" -> 0 [] ch = "3" -> 3 [] ch = "6" -> 6 [] ch = "9" -> 9

\* the alternatives of the group (?P<type>note|cc|pc)
TypeNames == <<"note", "cc", "pc">>
TypeChars == << <<"n", "o", "t", "e">>, <<"c", "c">>, <<"p", "c">> >>

\* the parts binding strings are put together from
LeadTexts == {<<>>, <<" ">>}
KindTexts == {TypeChars[1], TypeChars[2], TypeChars[3], <<"n", "o", "t", "a">>, <<>>}
ColonTexts == {<<":">>, <<>>}
NumberTexts == {<<"3">>, <<"3", "6">>, <<"-", "3">>, <<>>}
ChTexts == {<<":", "c", "h">>, <<":">>}
ChannelTexts == {<<"9">>, <<"0">>, <<>>}
TrailTexts == {<<>>, <<"\n">>, <<" ">>, <<"x">>}

\* the binding strings a bank file may hold for a pad
BindStrings ==
    {l \o k \o c1 \o n \o c2 \o c \o t :
        l \in LeadTexts, k \in KindTexts, c1 \in ColonTexts, n \in NumberTexts,
        c2 \in ChTexts, c \in ChannelTexts, t \in TrailTexts}

\* the binding of the bank's second pad: "cc:3:ch0"
SecondPadBind == <<"c", "c", ":", "3", ":", "c", "h", "0">>

\* Python's None where a tuple is expected, and an attribute a message lacks
NoBind == <<>>
Absent == 0 - 1

\* mido messages: every kind has its own attributes
NoteNumbers == {3, 36}
Channels == {0, 9}
Velocities == {0, 100}
Message(type, note, velocity, control, program, channel) ==
    [type |-> type, note |-> note, velocity |-> velocity, control |-> control,
     program |-> program, channel |-> channel]
Messages ==
    {Message(t, n, v, Absent, Absent, c) :
        t \in {"note_on", "note_off"}, n \in NoteNumbers, v \in Velocities, c \in Channels}
    \cup {Message("control_change", Absent, Absent, n, Absent, c) :
              n \in NoteNumbers, c \in Channels}
    \cup {Message("program_change", Absent, Absent, Absent, n, c) :
              n \in NoteNumbers, c \in Channels}
    \cup {Message(t, Absent, Absent, Absent, Absent, c) :
              t \in {"pitchwheel", "aftertouch"}, c \in Channels}
    \cup {Message("clock", Absent, Absent, Absent, Absent, Absent)}

\* no binding is being parsed
BindOff ==
    /\ pad_bind = <<>> /\ parsed = NoBind /\ midibind_map = {}
    /\ midi_msg = Message("clock", Absent, Absent, Absent, Absent, Absent)
    /\ match_result = "none" /\ triggered = {} /\ trigger_calls = <<>>
    /\ bind_pc = "init"

BindInit ==
    /\ pad_bind \in BindStrings /\ parsed = NoBind /\ midibind_map = {}
    /\ midi_msg \in Messages
    /\ match_result = "none" /\ triggered = {} /\ trigger_calls = <<>>
    /\ bind_pc = "init"

\* does s begin with the characters lit
StartsWith(s, lit) == Len(s) >= Len(lit) /\ SubSeq(s, 1, Len(lit)) = lit

\* s without its first n characters
Drop(s, n) == SubSeq(s, n + 1, Len(s))

\* \d+ is greedy: the number of digits s begins with
RECURSIVE DigitRun(_)
DigitRun(s) == IF s = <<>> \/ Head(s) \notin Digits THEN 0 ELSE 1 + DigitRun(Tail(s))

\* int() of a string of digits
RECURSIVE int(_)
int(d) == IF d = <<>> THEN 0 ELSE int(SubSeq(d, 1, Len(d) - 1)) * 10 + DigitVal(d[Len(d)])

\* a pattern that ends with \Z: only the end of the string
AtEnd_Strict(s) == s = <<>>

\* $ without re.MULTILINE: the end of the string, or just before a newline
\* that is the last character
AtEnd(s) == s = <<>> \/ s = <<"\n">>

\* the index of the alternative of note|cc|pc that s begins with, or 0
MatchedType(s) ==
    IF StartsWith(s, TypeChars[1]) THEN 1
    ELSE IF StartsWith(s, TypeChars[2]) THEN 2
    ELSE IF StartsWith(s, TypeChars[3]) THEN 3 ELSE 0

\* lines 9 and 20-23: _MIDIBIND_RE.match(s) and the groups converted
parse_midibind(s) ==
    IF MatchedType(s) = 0 THEN NoBind
    ELSE LET r1 == Drop(s, Len(TypeChars[MatchedType(s)]))
         IN  IF ~StartsWith(r1, <<":">>) \/ DigitRun(Drop(r1, 1)) = 0 THEN NoBind
             ELSE LET number == SubSeq(Drop(r1, 1), 1, DigitRun(Drop(r1, 1)))
                      r2 == Drop(r1, 1 + Len(number))
                  IN  IF ~StartsWith(r2, <<":", "c", "h">>) \/ DigitRun(Drop(r2, 3)) = 0
                      THEN NoBind
                      ELSE LET channel == SubSeq(Drop(r2, 3), 1, DigitRun(Drop(r2, 3)))
                           IN  IF AtEnd(Drop(r2, 3 + Len(channel)))
                               THEN <<TypeNames[MatchedType(s)], int(number), int(channel)>>
                               ELSE NoBind

\* one call of parse_midibind on the pad's string
ParseCall ==
    /\ bind_pc = "init"
    /\ parsed' = parse_midibind(pad_bind)
    /\ bind_pc' = "parsed"
    /\ UNCHANGED <<pad_bind, midibind_map, midi_msg, match_result, triggered, trigger_calls>>
    /\ UNCHANGED non_bind

\* a map in which the first pad to declare a binding keeps it
AddPad_KeepFirst(map, bind, pad) ==
    IF bind = <<>> \/ parse_midibind(bind) = NoBind
       \/ \E e \in map : e[1] = parse_midibind(bind) THEN map
    ELSE map \cup {<<parse_midibind(bind), pad>>}

\* tui/app.py lines 148-153, for one pad: a pad without a binding string or
\* with one that does not parse gets no entry; an entry replaces an equal key
AddPad(map, bind, pad) ==
    IF bind = <<>> \/ parse_midibind(bind) = NoBind THEN map
    ELSE {e \in map : e[1] # parse_midibind(bind)} \cup {<<parse_midibind(bind), pad>>}

\* Application.__init__, lines 145-158: the map of the bank's two pads
BuildBindMap ==
    /\ bind_pc = "parsed"
    /\ midibind_map' = AddPad(AddPad({}, pad_bind, 1), SecondPadBind, 2)
    /\ bind_pc' = "ready"
    /\ UNCHANGED <<pad_bind, parsed, midi_msg, match_result, triggered, trigger_calls>>
    /\ UNCHANGED non_bind

\* a matcher that takes a note_on of any velocity
VelocityOn_Any(msg) == msg.velocity >= 0

\* line 39: msg.velocity > 0
VelocityOn(msg) == msg.velocity > 0

\* a matcher that does not look at the kind of the message
TypeIs_Any(msg, type) == TRUE

\* lines 39, 42, 45: msg.type == ...
TypeIs(msg, type) == msg.type = type

\* Python's bool, as the function's return value
Bool(b) == IF b THEN "True" ELSE "False"

\* lines 40, 43, 46: msg.<attr> == bind_number and msg.channel == bind_channel;
\* reading an attribute the message does not have raises AttributeError
NumberAndChannel(value, msg, bind) ==
    IF value = Absent THEN "AttributeError"
    ELSE IF value # bind[2] THEN "False"
    ELSE IF msg.channel = Absent THEN "AttributeError"
    ELSE Bool(msg.channel = bind[3])

\* midi_msg_matches, lines 36-48
midi_msg_matches(msg, bind) ==
    IF bind[1] = "note"
    THEN IF ~TypeIs(msg, "note_on") THEN "False"
         ELSE IF msg.velocity = Absent THEN "AttributeError"
         ELSE IF ~VelocityOn(msg) THEN "False"
         ELSE NumberAndChannel(msg.note, msg, bind)
    ELSE IF bind[1] = "cc"
    THEN IF TypeIs(msg, "control_change") THEN NumberAndChannel(msg.control, msg, bind)
         ELSE "False"
    ELSE IF bind[1] = "pc"
    THEN IF TypeIs(msg, "program_change") THEN NumberAndChannel(msg.program, msg, bind)
         ELSE "False"
    ELSE "False"

\* one call of midi_msg_matches on the message and the parsed binding
MatchCall ==
    /\ bind_pc = "ready" /\ parsed # NoBind
    /\ match_result' = midi_msg_matches(midi_msg, parsed)
    /\ bind_pc' = "matched"
    /\ UNCHANGED <<pad_bind, parsed, midibind_map, midi_msg, triggered, trigger_calls>>
    /\ UNCHANGED non_bind

\* _midi_poll_loop, lines 337-341: note_off and note_on with velocity 0 are
\* skipped before any binding is looked at
Skipped(msg) == msg.type = "note_off" \/ (msg.type = "note_on" /\ msg.velocity = 0)

\* _trigger_pad, lines 252-258: the cached buffer, if there is one, goes to
\* the mixer, then the flash is handed to the controlling thread
TriggerCalls(pad) ==
    (IF pad \in sample_cache THEN << <<"play_data", pad>> >> ELSE <<>>) \o << <<"flash", pad>> >>

\* lines 342-345: the pads of the bindings that match the message
Hits(msg, map) == {e[2] : e \in {x \in map : midi_msg_matches(msg, x[1]) = "True"}}

\* _midi_poll_loop, lines 335-346, for one pending message: the pad of the
\* first binding that matches is triggered, and the loop over the bindings
\* ends there; an exception ends the pass
PollMessage ==
    /\ bind_pc \in {"ready", "matched"}
    /\ IF Skipped(midi_msg)
          \/ \E e \in midibind_map : midi_msg_matches(midi_msg, e[1]) = "AttributeError"
          \/ Hits(midi_msg, midibind_map) = {}
       THEN UNCHANGED <<triggered, trigger_calls>>
       ELSE \E pad \in Hits(midi_msg, midibind_map) :
                /\ triggered' = triggered \cup {pad}
                /\ trigger_calls' = trigger_calls \o TriggerCalls(pad)
    /\ bind_pc' = "polled"
    /\ UNCHANGED <<pad_bind, parsed, midibind_map, midi_msg, match_result>>
    /\ UNCHANGED non_bind

\* ======================================================================
\* The sampler's MIDI input thread (tui/app.py, lines 252-258 and 304-363)
\* ======================================================================
MaxEvents == 4
MaxSwitches == 2

\* _start_midi_listener has run: the port is open and the thread started
MidiInit ==
    /\ midi_running = TRUE /\ midi_pc = "poll" /\ port_pending = 0 /\ n_events = 0
    /\ ui_pc = "idle" /\ ui_calls = 0 /\ n_flashed = 0 /\ n_played = 0
    /\ old_pc = "none" /\ old_polls = 0 /\ switches = 0

\* no MIDI device is configured: no thread
MidiOff ==
    /\ midi_running = FALSE /\ midi_pc = "exited" /\ port_pending = 0 /\ n_events = 0
    /\ ui_pc = "idle" /\ ui_calls = 0 /\ n_flashed = 0 /\ n_played = 0
    /\ old_pc = "none" /\ old_polls = 0 /\ switches = 0

\* the device sends a message that is bound to a pad
MidiEvent ==
    /\ n_events < MaxEvents
    /\ n_events' = n_events + 1
    /\ port_pending' = port_pending + 1
    /\ UNCHANGED <<midi_running, midi_pc, ui_pc, ui_calls, n_flashed, n_played>>
    /\ UNCHANGED switch_vars
    /\ UNCHANGED non_midi

\* lines 333-344: the loop test, and the next pending message matched to its pad
PollTake ==
    /\ midi_pc = "poll" /\ midi_running /\ port_pending > 0
    /\ port_pending' = port_pending - 1
    /\ midi_pc' = "trigger"
    /\ UNCHANGED <<midi_running, n_events, ui_pc, ui_calls, n_flashed, n_played>>
    /\ UNCHANGED switch_vars
    /\ UNCHANGED non_midi

\* line 333: while self._midi_running, found false
PollExit ==
    /\ midi_pc = "poll" /\ ~midi_running
    /\ midi_pc' = "exited"
    /\ UNCHANGED <<midi_running, port_pending, n_events, ui_pc, ui_calls, n_flashed, n_played>>
    /\ UNCHANGED switch_vars
    /\ UNCHANGED non_midi

\* a hand-over that schedules the callback and returns at once
AfterHandOver_Posted == "poll"

\* line 258: App.call_from_thread runs the callback on the controlling thread
\* and returns its result: the caller waits until the callback has run
AfterHandOver == "in_call"

\* _trigger_pad, lines 254-258: submit the audio, hand the flash over
TriggerPad ==
    /\ midi_pc = "trigger"
    /\ n_played' = n_played + 1
    /\ ui_calls' = ui_calls + 1
    /\ midi_pc' = AfterHandOver
    /\ UNCHANGED <<midi_running, port_pending, n_events, ui_pc, n_flashed>>
    /\ UNCHANGED switch_vars
    /\ UNCHANGED non_midi

\* the controlling thread, when free, runs the oldest callback handed to it
\* (_flash_pad, lines 240-250); the thread waiting for it in call_from_thread
\* goes on
UiRunsCallback ==
    /\ ui_pc = "idle" /\ ui_calls > 0
    /\ ui_calls' = ui_calls - 1
    /\ n_flashed' = n_flashed + 1
    /\ IF old_pc = "in_call"
       THEN old_pc' = "poll" /\ UNCHANGED midi_pc
       ELSE /\ midi_pc' = IF midi_pc = "in_call" THEN "poll" ELSE midi_pc
            /\ UNCHANGED old_pc
    /\ UNCHANGED <<midi_running, port_pending, n_events, ui_pc, n_played, old_polls, switches>>
    /\ UNCHANGED non_midi

\* the controlling thread starts and ends another handler (a key, a redraw)
UiBusy ==
    /\ ui_pc \in {"idle", "busy"} /\ midi_running
    /\ ui_pc' = IF ui_pc = "idle" THEN "busy" ELSE "idle"
    /\ UNCHANGED <<midi_running, midi_pc, port_pending, n_events, ui_calls, n_flashed,
                   n_played>>
    /\ UNCHANGED switch_vars
    /\ UNCHANGED non_midi

\* _stop_midi_listener, lines 353-355: clear the flag, join the thread
StopListener ==
    /\ ui_pc = "idle" /\ midi_running
    /\ midi_running' = FALSE
    /\ ui_pc' = "joining"
    /\ UNCHANGED <<midi_pc, port_pending, n_events, ui_calls, n_flashed, n_played>>
    /\ UNCHANGED switch_vars
    /\ UNCHANGED non_midi

\* line 355: join(timeout=1.0) returns when the thread has exited, or after
\* the timeout when the thread is waiting for the controlling thread itself
StopJoinReturn ==
    /\ ui_pc = "joining"
    /\ midi_pc \in {"exited", "in_call"}
    /\ ui_pc' = "idle"
    /\ UNCHANGED <<midi_running, midi_pc, port_pending, n_events, ui_calls, n_flashed,
                   n_played>>
    /\ UNCHANGED switch_vars
    /\ UNCHANGED non_midi

\* _switch_midi_device, lines 401-412, after _stop_midi_listener has returned:
\* _start_midi_on_port (lines 377-399) opens the chosen port, sets
\* _midi_running and starts a thread.  _stop_midi_listener has dropped its
\* reference to the previous thread (line 356) and closed its port, whether
\* or not the join found the thread exited
_start_midi_on_port ==
    /\ ui_pc = "idle" /\ ~midi_running
    /\ switches < MaxSwitches /\ old_pc \in {"none", "exited"}
    /\ switches' = switches + 1
    /\ midi_running' = TRUE
    /\ old_pc' = midi_pc
    /\ old_polls' = 0
    /\ midi_pc' = "poll"
    /\ port_pending' = 0
    /\ UNCHANGED <<n_events, ui_pc, ui_calls, n_flashed, n_played>>
    /\ UNCHANGED non_midi

\* lines 333-349 in the previous thread: it leaves the loop if it finds the
\* flag cleared; else it polls its own port, which is closed (an exception,
\* caught at line 346, with the flag set: no break), and sleeps
OldThreadPoll ==
    /\ old_pc = "poll"
    /\ IF midi_running
       THEN old_polls' = Min(old_polls + 1, MaxEvents) /\ UNCHANGED old_pc
       ELSE old_pc' = "exited" /\ UNCHANGED old_polls
    /\ UNCHANGED <<midi_running, midi_pc, port_pending, n_events, ui_pc, ui_calls, n_flashed,
                   n_played, switches>>
    /\ UNCHANGED non_midi

\* ======================================================================
\* Editing during playback: the handlers of SequencerApp (sequencer/app.py)
\* against the statements of SequencerEngine._run, lines 153-198
\* ======================================================================
MaxEdits == 4

\* the thread does not exist, the sequence is as constructed
EditOff ==
    /\ ed_pc = "dead" /\ pat_idx = 0 /\ pattern_at = None /\ it_size = 0 /\ it_pos = 0
    /\ ed_error = "none" /\ n_loads = 0 /\ idx_load = 0 /\ edits = 0

\* the pattern files action_load_patterns may find: one pattern, or two with
\* the second active
LoadFiles ==
    {[patterns |-> <<PatternOf(0)>>, active_pattern |-> 0],
     [patterns |-> <<PatternOf(1), PatternOf(0)>>, active_pattern |-> 1]}

\* the controlling thread runs one more handler
Edit == edits < MaxEdits /\ edits' = edits + 1

\* is i (0-based) an index into the list
ValidIndex(i, list) == 0 <= i /\ i < Len(list)

\* the thread is alive: started and neither returned nor ended by an exception
EdAlive == ed_pc \notin {"dead", "failed"}

\* action_toggle_play, lines 486-496: engine.stop() when playing, else
\* engine.start(), which is a no-op while _playing and otherwise clears the
\* stop event and starts a thread
action_toggle_play ==
    /\ Edit
    /\ IF playing
       THEN /\ stop_event' = TRUE /\ playing' = FALSE /\ current_step' = 0
            /\ pending_pattern' = pending_pattern
            /\ UNCHANGED ed_pc
       ELSE /\ ~EdAlive
            /\ stop_event' = FALSE
            /\ ed_pc' = "count_in"
            /\ UNCHANGED <<playing, current_step, pending_pattern>>
    /\ UNCHANGED <<seq_vars, pat_idx, pattern_at, it_size, it_pos, ed_error, n_loads, idx_load>>
    /\ UNCHANGED non_edit

\* list.pop(i) for a 0-based i
Pop0(list, i) == [k \in 1..(Len(list) - 1) |-> IF k <= i THEN list[k] ELSE list[k + 1]]

\* action_delete_pattern, lines 635-649
action_delete_pattern ==
    /\ Edit
    /\ Len(patterns) > 1 /\ ValidIndex(active_pattern, patterns)
    /\ pending_pattern' = None
    /\ patterns' = Pop0(patterns, active_pattern)
    /\ active_pattern' = IF active_pattern >= Len(patterns') THEN Len(patterns') - 1
                         ELSE active_pattern
    /\ pattern_at' = IF pattern_at = None \/ pattern_at = active_pattern THEN None
                     ELSE IF pattern_at > active_pattern THEN pattern_at - 1 ELSE pattern_at
    /\ UNCHANGED <<playing, stop_event, current_step, ed_pc, pat_idx, it_size, it_pos, ed_error,
                   n_loads, idx_load>>
    /\ UNCHANGED non_edit

\* action_add_pattern, lines 627-633: a pattern without step lists is appended
action_add_pattern ==
    /\ Edit
    /\ Len(patterns) <= MaxPatterns
    /\ patterns' = Append(patterns, <<>>)
    /\ UNCHANGED <<playing, stop_event, current_step, pending_pattern, active_pattern, ed_pc,
                   pat_idx, pattern_at, it_size, it_pos, ed_error, n_loads, idx_load>>
    /\ UNCHANGED non_edit

\* does the dict hold the key
HasKey(dict, p) == \E k \in 1..Len(dict) : dict[k][1] = p

\* lines 452-457: create the pad's list if there is none, then flip the flag
ToggledSteps(dict, p, col) ==
    LET with == IF HasKey(dict, p) THEN dict
                ELSE Append(dict, <<p, [s \in 1..total_steps |-> 0]>>)
    IN  [k \in 1..Len(with) |->
            IF with[k][1] = p
            THEN <<p, [with[k][2] EXCEPT ![col + 1] = IF @ # 0 THEN 0 ELSE 1]>>
            ELSE with[k]]

\* action_toggle_step, lines 442-457, with the cursor on pad p, column 0
action_toggle_step(p) ==
    /\ Edit
    /\ ValidIndex(active_pattern, patterns)
    /\ patterns' = [patterns EXCEPT ![active_pattern + 1] = ToggledSteps(@, p, 0)]
    /\ UNCHANGED <<playing, stop_event, current_step, pending_pattern, active_pattern, ed_pc,
                   pat_idx, pattern_at, it_size, it_pos, ed_error, n_loads, idx_load>>
    /\ UNCHANGED non_edit

\* _switch_pattern, lines 549-562: queued while playing, applied at once otherwise
_switch_pattern(index) ==
    /\ Edit
    /\ ValidIndex(index, patterns)
    /\ IF playing
       THEN pending_pattern' = index /\ UNCHANGED active_pattern
       ELSE active_pattern' = index /\ UNCHANGED pending_pattern
    /\ UNCHANGED <<playing, stop_event, current_step, patterns, ed_pc, pat_idx, pattern_at,
                   it_size, it_pos, ed_error, n_loads, idx_load>>
    /\ UNCHANGED non_edit

\* a loader that swaps only when no thread is alive
MaySwap_Quiesced == ~EdAlive

\* lines 675-683: nothing is waited for between engine.stop() and the swap
MaySwap == TRUE

\* action_load_patterns, lines 668-695: stop the engine if it is playing, then
\* replace self.sequence and engine.sequence by the loaded one
action_load_patterns(file) ==
    /\ Edit
    /\ MaySwap
    /\ IF playing
       THEN stop_event' = TRUE /\ playing' = FALSE /\ current_step' = 0
       ELSE UNCHANGED <<stop_event, playing, current_step>>
    /\ patterns' = file.patterns
    /\ active_pattern' = file.active_pattern
    /\ pending_pattern' = None
    /\ n_loads' = n_loads + 1
    /\ pattern_at' = None
    /\ UNCHANGED <<ed_pc, pat_idx, it_size, it_pos, ed_error, idx_load>>
    /\ UNCHANGED non_edit

\* the thread moves on; the sequence and the controlling thread stay
EdGoto(to) ==
    /\ ed_pc' = to
    /\ UNCHANGED <<n_loads, edits>>
    /\ UNCHANGED non_edit

\* lines 200-201 (after the loop)
EdExit ==
    /\ playing' = FALSE /\ current_step' = 0
    /\ EdGoto("dead")
    /\ UNCHANGED <<stop_event, pending_pattern, seq_vars, pat_idx, pattern_at, it_size, it_pos,
                   ed_error, idx_load>>

\* an exception leaves _run: the thread ends, nothing is reset
EdFail(e) ==
    /\ ed_error' = e
    /\ EdGoto("failed")
    /\ UNCHANGED <<playing, stop_event, current_step, pending_pattern, seq_vars, pat_idx,
                   pattern_at, it_size, it_pos, idx_load>>

\* lines 119-146: the count-in ends, by the stop event or by its last beat
EdCountIn ==
    /\ ed_pc = "count_in"
    /\ IF stop_event
       THEN EdGoto("dead") /\ UNCHANGED <<playing, current_step>>
       ELSE EdGoto("loop") /\ playing' = TRUE /\ current_step' = 0
    /\ UNCHANGED <<stop_event, pending_pattern, seq_vars, pat_idx, pattern_at, it_size, it_pos,
                   ed_error, idx_load>>

\* line 153: while not self._stop_event.is_set()
EdLoopTest ==
    /\ ed_pc = "loop"
    /\ IF stop_event THEN EdExit
       ELSE /\ EdGoto("bar")
            /\ UNCHANGED <<playing, stop_event, current_step, pending_pattern, seq_vars,
                           pat_idx, pattern_at, it_size, it_pos, ed_error, idx_load>>

\* line 158: if self._current_step == 0 and self._pending_pattern is not None
EdBar ==
    /\ ed_pc = "bar"
    /\ IF current_step = 0 /\ pending_pattern # None THEN EdGoto("apply") ELSE EdGoto("read")
    /\ UNCHANGED <<playing, stop_event, current_step, pending_pattern, seq_vars, pat_idx,
                   pattern_at, it_size, it_pos, ed_error, idx_load>>

\* line 159: self.sequence.active_pattern = self._pending_pattern, which is
\* read again here
EdApply ==
    /\ ed_pc = "apply"
    /\ active_pattern' = pending_pattern
    /\ EdGoto("clear")
    /\ UNCHANGED <<playing, stop_event, current_step, pending_pattern, patterns, pat_idx,
                   pattern_at, it_size, it_pos, ed_error, idx_load>>

\* line 160: self._pending_pattern = None
EdClear ==
    /\ ed_pc = "clear"
    /\ pending_pattern' = None
    /\ EdGoto("read")
    /\ UNCHANGED <<playing, stop_event, current_step, seq_vars, pat_idx, pattern_at, it_size,
                   it_pos, ed_error, idx_load>>

\* line 163: pat_idx = self.sequence.active_pattern
EdReadIndex ==
    /\ ed_pc = "read"
    /\ pat_idx' = active_pattern
    /\ idx_load' = n_loads
    /\ EdGoto("check")
    /\ UNCHANGED <<playing, stop_event, current_step, pending_pattern, seq_vars, pattern_at,
                   it_size, it_pos, ed_error>>

\* lines 164 and 166-167: the bounds check; pattern = None when it fails, and
\* 0 <= None raises TypeError
EdCheck ==
    /\ ed_pc = "check"
    /\ IF pat_idx = None
       THEN EdFail("TypeError")
       ELSE /\ IF ValidIndex(pat_idx, patterns)
               THEN EdGoto("index") /\ UNCHANGED pattern_at
               ELSE EdGoto("metro") /\ pattern_at' = None
            /\ UNCHANGED <<playing, stop_event, current_step, pending_pattern, seq_vars,
                           pat_idx, it_size, it_pos, ed_error, idx_load>>

\* line 165: pattern = self.sequence.patterns[pat_idx], the list read again;
\* line 171: the for loop takes an iterator over pattern.steps
EdIndex ==
    /\ ed_pc = "index"
    /\ IF ~ValidIndex(pat_idx, patterns)
       THEN EdFail("IndexError")
       ELSE /\ pattern_at' = pat_idx
            /\ it_size' = Len(patterns[pat_idx + 1])
            /\ it_pos' = 0
            /\ EdGoto("iter")
            /\ UNCHANGED <<playing, stop_event, current_step, pending_pattern, seq_vars,
                           pat_idx, ed_error, idx_load>>

\* the size of the dict the for loop iterates: a pattern that left the list
\* (deleted, or its sequence replaced) is no longer edited
IteratedSize == IF pattern_at = None THEN it_size ELSE Len(patterns[pattern_at + 1])

\* lines 171-175: the for loop asks the dict iterator for its next entry; the
\* iterator raises RuntimeError when the dict has changed size
EdIterNext ==
    /\ ed_pc = "iter"
    /\ IF IteratedSize # it_size
       THEN EdFail("RuntimeError")
       ELSE /\ IF it_pos < it_size
               THEN it_pos' = it_pos + 1 /\ EdGoto("iter")
               ELSE it_pos' = it_pos /\ EdGoto("metro")
            /\ UNCHANGED <<playing, stop_event, current_step, pending_pattern, seq_vars,
                           pat_idx, pattern_at, it_size, ed_error, idx_load>>

\* lines 178-191: metronome, notification, and the step advanced
EdAdvance ==
    /\ ed_pc = "metro"
    /\ current_step' = (current_step + 1) % total_steps
    /\ EdGoto("sleep")
    /\ UNCHANGED <<playing, stop_event, pending_pattern, seq_vars, pat_idx, pattern_at, it_size,
                   it_pos, ed_error, idx_load>>

\* lines 194-198: the sleep ends, by the stop event (break) or by its timeout
EdSleep ==
    /\ ed_pc = "sleep"
    /\ IF stop_event THEN EdExit
       ELSE /\ EdGoto("loop")
            /\ UNCHANGED <<playing, stop_event, current_step, pending_pattern, seq_vars,
                           pat_idx, pattern_at, it_size, it_pos, ed_error, idx_load>>

\* ======================================================================
\* Sequences as created, loaded and edited: SequenceFile (sequencer/schema.py)
\* and the step and tempo keys of SequencerApp (sequencer/app.py)
\* ======================================================================
MaxListLen == 4
MaxBeats == 2
MaxSpb == 2
MaxPresses == 2

\* the tempos a pattern file or the configuration may hold: nothing checks them
FileBpms == {0, 25, DefaultBpm, 295, 500}
ConfigBpms == {DefaultBpm, 10}

\* step lists as a file may hold them: any flags, any length
FlagLists == UNION {[1..n -> {0, 1}] : n \in 0..MaxListLen}

\* lists of n ones
Ones(n) == [i \in 1..n |-> 1]

\* the "steps" dicts of a file's pattern, as sequences of <<pad, list>>:
\* a list for pad 1 and, or, one for pad 2, which may be longer than any bar
FileSteps ==
    {<<>>}
    \cup {<< <<1, l>> >> : l \in FlagLists}
    \cup {<< <<1, l>>, <<2, Ones(MaxListLen + 1)>> >> : l \in FlagLists}

\* the pattern files
SequenceFiles ==
    [bpm : FileBpms, beats_per_bar : 1..MaxBeats, steps_per_beat : 1..MaxSpb,
     steps : FileSteps]

\* no sequence has been made yet
FileOff ==
    /\ seq_json = [bpm |-> DefaultBpm, beats_per_bar |-> 1, steps_per_beat |-> 1,
                   steps |-> <<>>]
    /\ seq_cfg = DefaultBpm
    /\ sequence = seq_json /\ sq_pc = "new" /\ presses = 0

FileInit ==
    /\ seq_json \in SequenceFiles /\ seq_cfg \in ConfigBpms
    /\ sequence = [bpm |-> DefaultBpm, beats_per_bar |-> 1, steps_per_beat |-> 1,
                   steps |-> <<>>]
    /\ sq_pc = "new" /\ presses = 0

\* SequenceFile.total_steps, lines 42-46
TotalSteps(seq) == seq.beats_per_bar * seq.steps_per_beat

\* a normalisation that keeps the last n entries of a list that is too long
Trimmed_Last(list, n) == SubSeq(list, Len(list) - n + 1, Len(list))

\* line 56: steps[:n]
Trimmed(list, n) == SubSeq(list, 1, n)

\* line 54: steps.extend([0] * (n - len(steps)))
Extended(list, n) == list \o [i \in 1..(n - Len(list)) |-> 0]

\* ensure_step_lengths, lines 48-56, on the step lists of a pattern
ensure_step_lengths(dict, n) ==
    [k \in 1..Len(dict) |->
        <<dict[k][1],
          IF Len(dict[k][2]) < n THEN Extended(dict[k][2], n)
          ELSE IF Len(dict[k][2]) > n THEN Trimmed(dict[k][2], n)
          ELSE dict[k][2]>>]

\* SequenceFile.create_default, lines 72-89, as SequencerApp.__init__ calls it
\* (lines 181-186): the configured tempo, patterns without step lists
CreateDefault ==
    /\ sq_pc = "new"
    /\ sequence' = [seq_json EXCEPT !.bpm = seq_cfg, !.steps = <<>>]
    /\ sq_pc' = "created"
    /\ UNCHANGED <<seq_json, seq_cfg, presses>>
    /\ UNCHANGED non_file

\* SequenceFile.load, lines 63-70: validate the types, normalise the lists
LoadSequence ==
    /\ sq_pc = "new"
    /\ sequence' = [seq_json EXCEPT
                        !.steps = ensure_step_lengths(seq_json.steps, TotalSteps(seq_json))]
    /\ sq_pc' = "loaded"
    /\ UNCHANGED <<seq_json, seq_cfg, presses>>
    /\ UNCHANGED non_file

\* a key is handled
Press == sq_pc # "new" /\ presses < MaxPresses /\ presses' = presses + 1

\* lines 451-457 for a bar of total steps
ToggledIn(dict, p, col, total) ==
    LET with == IF HasKey(dict, p) THEN dict
                ELSE Append(dict, <<p, [s \in 1..total |-> 0]>>)
    IN  [k \in 1..Len(with) |->
            IF with[k][1] = p
            THEN <<p, [with[k][2] EXCEPT ![col + 1] = IF @ # 0 THEN 0 ELSE 1]>>
            ELSE with[k]]

\* the cursor columns tried: the first and the last of the grid (the cursor
\* stays inside the grid, lines 430-438)
CursorCols(seq) == {0, TotalSteps(seq) - 1}

\* action_toggle_step, lines 442-457, with the cursor on pad p and column col
ToggleStep(p, col) ==
    /\ Press
    /\ sequence' = [sequence EXCEPT !.steps = ToggledIn(@, p, col, TotalSteps(sequence))]
    /\ UNCHANGED <<seq_json, seq_cfg, sq_pc>>
    /\ UNCHANGED non_file

\* action_bpm_up, line 540
BpmUp ==
    /\ Press
    /\ sequence' = [sequence EXCEPT !.bpm = Min(BpmCeiling, @ + BpmStep)]
    /\ UNCHANGED <<seq_json, seq_cfg, sq_pc>>
    /\ UNCHANGED non_file

\* action_bpm_down, line 544
BpmDown ==
    /\ Press
    /\ sequence' = [sequence EXCEPT !.bpm = Max(BpmFloor, @ - BpmStep)]
    /\ UNCHANGED <<seq_json, seq_cfg, sq_pc>>
    /\ UNCHANGED non_file

\* ======================================================================
\* The sample cache: preloading in Application.__init__ (tui/app.py, lines
\* 166-190) and SequencerApp._preload_samples (sequencer/app.py, lines
\* 239-256), and the operations that run once the application is up
\* ======================================================================
MaxUses == 3

\* MAX_PRELOAD_BYTES, in the units of pad_sizes
PreloadLimit == 3

\* the sizes a sample file may have; 0: no file at sample_path
FileSizes == 0..PreloadLimit

CacheOff ==
    /\ app_kind = "sampler" /\ pad_sizes = [p \in PadIds |-> 0] /\ boot_pc = "init"
    /\ preload_i = 1 /\ total_size = 0 /\ cache = {} /\ consumers = {}
    /\ cache_reads = 0 /\ cache_uses = 0

CacheInit ==
    /\ app_kind \in {"sampler", "sequencer"} /\ pad_sizes \in [PadIds -> FileSizes]
    /\ boot_pc = "init" /\ preload_i = 1 /\ total_size = 0 /\ cache = {}
    /\ consumers = {} /\ cache_reads = 0 /\ cache_uses = 0

\* tui/app.py line 168, sequencer/app.py line 193: self.sample_cache = {}
PreloadBegin ==
    /\ boot_pc = "init"
    /\ cache' = {} /\ total_size' = 0 /\ preload_i' = 1
    /\ boot_pc' = "preload"
    /\ UNCHANGED <<app_kind, pad_sizes, consumers, cache_reads, cache_uses>>
    /\ UNCHANGED non_cache

\* lines 171-174: the file exists and fits under the limit
Preloads(size, total) == size > 0 /\ total + size <= PreloadLimit

\* one pass of the for loop, tui/app.py lines 170-186, sequencer/app.py
\* lines 242-254: load_wav returns an array in every case, which is stored
PreloadPad ==
    /\ boot_pc = "preload" /\ preload_i \in PadIds
    /\ IF Preloads(pad_sizes[preload_i], total_size)
       THEN /\ cache' = cache \cup {preload_i}
            /\ total_size' = total_size + pad_sizes[preload_i]
       ELSE UNCHANGED <<cache, total_size>>
    /\ preload_i' = preload_i + 1
    /\ UNCHANGED <<app_kind, pad_sizes, boot_pc, consumers, cache_reads, cache_uses>>
    /\ UNCHANGED non_cache

\* the loop is over and __init__ returns
InitReturns ==
    /\ boot_pc = "preload" /\ preload_i \notin PadIds
    /\ boot_pc' = "built"
    /\ UNCHANGED <<app_kind, pad_sizes, preload_i, total_size, cache, consumers, cache_reads,
                   cache_uses>>
    /\ UNCHANGED non_cache

\* the framework mounts the application it was given: __init__ has returned
MayMount == boot_pc = "built"

\* Application.on_mount, tui/app.py lines 418-421: _start_midi_listener starts
\* the polling thread; the sequencer's on_mount starts no thread
on_mount ==
    /\ MayMount
    /\ consumers' = IF app_kind = "sampler" THEN {"midi"} ELSE {}
    /\ boot_pc' = "running"
    /\ UNCHANGED <<app_kind, pad_sizes, preload_i, total_size, cache, cache_reads, cache_uses>>
    /\ UNCHANGED non_cache

\* an operation of the running application
CacheUse == boot_pc = "running" /\ cache_uses < MaxUses /\ cache_uses' = cache_uses + 1

\* SequencerApp.action_toggle_play, sequencer/app.py lines 486-496: the engine
\* starts or stops its timing thread
CacheTogglePlay ==
    /\ CacheUse /\ app_kind = "sequencer"
    /\ consumers' = IF "seq" \in consumers THEN {} ELSE {"seq"}
    /\ UNCHANGED <<app_kind, pad_sizes, boot_pc, preload_i, total_size, cache, cache_reads>>
    /\ UNCHANGED non_cache

\* Application._switch_midi_device, tui/app.py lines 401-412: the listener is
\* stopped and one is started on the chosen port, or none
CacheSwitchDevice ==
    /\ CacheUse /\ app_kind = "sampler"
    /\ consumers' \in {{}, {"midi"}}
    /\ UNCHANGED <<app_kind, pad_sizes, boot_pc, preload_i, total_size, cache, cache_reads>>
    /\ UNCHANGED non_cache

\* a handler that drops the cached samples, as a reload of the bank would
AfterHandler_Reloaded(c) == {}

\* the cache after a handler: no handler assigns to sample_cache or to an entry
AfterHandler(c) == c

\* the other handlers of both applications (pad keys, step and pattern edits,
\* tempo keys, load and save of patterns)
CacheOtherHandler ==
    /\ CacheUse
    /\ cache' = AfterHandler(cache)
    /\ UNCHANGED <<app_kind, pad_sizes, boot_pc, preload_i, total_size, consumers,
                   cache_reads>>
    /\ UNCHANGED non_cache

\* a thread looks a pad up: engine.py lines 174-175, tui/app.py line 254
CacheRead ==
    /\ consumers # {} /\ cache_reads < MaxUses
    /\ cache_reads' = cache_reads + 1
    /\ UNCHANGED <<app_kind, pad_sizes, boot_pc, preload_i, total_size, cache, consumers,
                   cache_uses>>
    /\ UNCHANGED non_cache

\* on_unmount of either application: the threads are stopped
CacheUnmount ==
    /\ boot_pc = "running"
    /\ consumers' = {} /\ boot_pc' = "closed"
    /\ UNCHANGED <<app_kind, pad_sizes, preload_i, total_size, cache, cache_reads, cache_uses>>
    /\ UNCHANGED non_cache


\* ======================================================================
\* The play/stop key (sequencer/app.py, action_toggle_play and callbacks)
\* ======================================================================

\* app.py line 220: self._playhead = -1, no key pressed yet
PlayOff == playhead = -1 /\ toggle_req = "none" /\ toggle_busy = FALSE

\* a timing thread is in its count-in or in its playback loop: it is alive
\* and has not been told to stop
Busy == \E t \in Threads : is_alive(t) /\ ~stop_event

\* app.py lines 486-496: the play/stop key.  Line 487 tests engine.playing and
\* self._playhead >= 0; the stop branch calls engine.stop() and sets the
\* playhead to -1, the start branch sets the sentinel -2 and calls engine.start()
TogglePlay ==
    /\ toggle_busy' = Busy
    /\ IF playing \/ playhead >= 0
       THEN Stop /\ playhead' = -1 /\ toggle_req' = "stop"
       ELSE /\ StartNoop \/ StartSpawn \/ StartJoin
            /\ playhead' = -2
            /\ toggle_req' = "start"
    /\ UNCHANGED app_rest

\* engine.py line 94 under the key's start(): the join returns and the thread starts
PlayJoinReturn == JoinReturn /\ UNCHANGED <<play_vars, app_rest>>

\* app.py lines 498-515: what the step thread t is about to take leaves in
\* _playhead: on_count_in_beat (engine.py 131-132) stores -2, on_step
\* (engine.py 187-188) stores the step it is given, any other step stores nothing
AfterCallback(t) ==
    CASE pc[t] = "ci_check" /\ ~stop_event -> -2
      [] pc[t] = "metro" -> current_step
      [] OTHER -> playhead

\* one step of timing thread t together with the callback it makes
PlayThreadStep(t) ==
    /\ ThreadStep(t)
    /\ playhead' = AfterCallback(t)
    /\ UNCHANGED <<toggle_req, toggle_busy, app_rest>>


\* ======================================================================
\* Specifications
\* ======================================================================
non_engine == <<timing_vars, mixer_vars, wav_vars, ui_vars>>

vars == <<all_engine, timing_vars, mixer_vars, wav_vars, ui_vars>>

\* the input and editing side at rest
UiOff == BindOff /\ MidiOff /\ EditOff /\ FileOff /\ CacheOff /\ PlayOff

\* the sequencer engine and its controlling thread
Init == EngineInit /\ TimingOff /\ MixerInit /\ WavOff /\ UiOff

Next ==
    \/ StartNoop /\ UNCHANGED non_engine
    \/ StartSpawn /\ UNCHANGED non_engine
    \/ StartJoin /\ UNCHANGED non_engine
    \/ JoinReturn /\ UNCHANGED non_engine
    \/ Stop /\ UNCHANGED non_engine
    \/ \E i \in QueueInputs : queue_pattern_switch(i) /\ UNCHANGED non_engine
    \/ action_toggle_metronome /\ UNCHANGED non_engine
    \/ \E t \in Threads : ThreadStep(t) /\ UNCHANGED non_engine

Spec == Init /\ [][Next]_vars

\* the scheduler runs every live thread, and a join with a timeout returns
FairSpec ==
    /\ Spec
    /\ WF_vars(JoinReturn /\ UNCHANGED non_engine)
    /\ \A t \in Threads : WF_vars(ThreadStep(t) /\ UNCHANGED non_engine)

\* the engine at rest with the configuration's defaults
EngineOff == EngineInit /\ metronome_enabled /\ accent_beat_1

\* one timing thread in playback, against the clock
TimingSpecInit == EngineOff /\ TimingInit /\ MixerInit /\ WavOff /\ UiOff

TimingNext ==
    \/ TimedPlaybackStart
    \/ TimedIteration
    \/ TimedWake
    \/ TimedWaitStopped
    \/ action_bpm_up
    \/ action_bpm_down
    \/ Stop /\ ~stop_event /\ UNCHANGED non_engine

TimingSpec == TimingSpecInit /\ [][TimingNext]_vars

\* the mixer with its callers, the audio callback and the shutdown handlers
MixerSpecInit == EngineOff /\ TimingOff /\ MixerInit /\ WavOff /\ UiOff

MixerNext ==
    \/ \E c \in Callers, data \in Buffers : play_data(c, data)
    \/ \E c \in Callers : PlayAcquire(c)
    \/ \E c \in Callers : PlayAppend(c)
    \/ CallbackEnter
    \/ CallbackAcquire
    \/ MixVoice
    \/ CallbackReturn
    \/ action_quit
    \/ on_unmount

MixerSpec == MixerSpecInit /\ [][MixerNext]_vars

\* load_wav applied to every file of the bounded set
WavSpecInit == EngineOff /\ TimingOff /\ MixerInit /\ WavInit /\ UiOff

WavNext == LoadWav

WavSpec == WavSpecInit /\ [][WavNext]_vars

\* a binding string parsed, entered in the map and matched against a message
BindSpecInit ==
    EngineOff /\ TimingOff /\ MixerInit /\ WavOff /\ BindInit /\ MidiOff /\ EditOff
    /\ FileOff /\ CacheOff /\ PlayOff

BindNext ==
    \/ ParseCall
    \/ BuildBindMap
    \/ MatchCall
    \/ PollMessage

BindSpec == BindSpecInit /\ [][BindNext]_vars

\* the MIDI thread, the device and the controlling thread
MidiSpecInit ==
    EngineOff /\ TimingOff /\ MixerInit /\ WavOff /\ BindOff /\ MidiInit /\ EditOff
    /\ FileOff /\ CacheOff /\ PlayOff

MidiNext ==
    \/ MidiEvent
    \/ PollTake
    \/ PollExit
    \/ TriggerPad
    \/ UiRunsCallback
    \/ UiBusy
    \/ StopListener
    \/ StopJoinReturn
    \/ _start_midi_on_port
    \/ OldThreadPoll

MidiSpec == MidiSpecInit /\ [][MidiNext]_vars

\* the sequencer app's handlers against one timing thread
EditSpecInit == EngineOff /\ TimingOff /\ MixerInit /\ WavOff /\ UiOff

EditNext ==
    \/ action_toggle_play
    \/ action_delete_pattern
    \/ action_add_pattern
    \/ \E p \in PadIds : action_toggle_step(p)
    \/ \E i \in 0..MaxPatterns : _switch_pattern(i)
    \/ \E file \in LoadFiles : action_load_patterns(file)
    \/ EdCountIn
    \/ EdLoopTest
    \/ EdBar
    \/ EdApply
    \/ EdClear
    \/ EdReadIndex
    \/ EdCheck
    \/ EdIndex
    \/ EdIterNext
    \/ EdAdvance
    \/ EdSleep

EditSpec == EditSpecInit /\ [][EditNext]_vars

\* a sequence created or loaded, then edited with the step and tempo keys
FileSpecInit ==
    EngineOff /\ TimingOff /\ MixerInit /\ WavOff /\ BindOff /\ MidiOff /\ EditOff
    /\ FileInit /\ CacheOff /\ PlayOff

FileNext ==
    \/ CreateDefault
    \/ LoadSequence
    \/ \E p \in PadIds, col \in CursorCols(sequence) : ToggleStep(p, col)
    \/ BpmUp
    \/ BpmDown

FileSpec == FileSpecInit /\ [][FileNext]_vars

\* an application is constructed, mounted, used and closed
CacheSpecInit ==
    EngineOff /\ TimingOff /\ MixerInit /\ WavOff /\ BindOff /\ MidiOff /\ EditOff
    /\ FileOff /\ CacheInit /\ PlayOff

CacheNext ==
    \/ PreloadBegin
    \/ PreloadPad
    \/ InitReturns
    \/ on_mount
    \/ CacheTogglePlay
    \/ CacheSwitchDevice
    \/ CacheOtherHandler
    \/ CacheRead
    \/ CacheUnmount

CacheSpec == CacheSpecInit /\ [][CacheNext]_vars


\* the play/stop key against the engine's timing threads
PlaySpecInit ==
    EngineInit /\ TimingOff /\ MixerInit /\ WavOff /\ BindOff /\ MidiOff /\ EditOff
    /\ FileOff /\ CacheOff /\ PlayOff

PlayNext ==
    \/ TogglePlay
    \/ PlayJoinReturn
    \/ \E t \in Threads : PlayThreadStep(t)

PlaySpec == PlaySpecInit /\ [][PlayNext]_vars


\* ======================================================================
\* Properties
\* ======================================================================

TypeOK ==
    /\ playing \in BOOLEAN /\ stop_event \in BOOLEAN
    /\ current_step \in 0..(total_steps - 1)
    /\ pending_pattern \in {None} \cup 0..(MaxPatterns - 1)
    /\ thread \in {0} \cup Threads
    /\ ctl \in {"idle", "joining"}

\* thread t takes the step of _run that leads from position p to position q
Moves(t, p, q) == pc[t] = p /\ pc'[t] = q

\* thread t calls on_step in this step
CallsOnStep(t) == Moves(t, "metro", "advance")

\* C1: at most one timing thread (a thread executing _run, in count-in or in
\* playback) is alive at any time.
C1_OneTimingThread == Cardinality(Alive) <= 1

\* C2: while a timing thread is alive and no stop has been requested (the
\* engine is in CountIn or Playing), start() is a no-op: it spawns no thread,
\* so no thread enters _run and no count-in is restarted.
C2_StartIsNoopWhileActive ==
    [][(Alive # {} /\ ~stop_event)
         => \A t \in Threads : pc'[t] = "run" => pc[t] = "run"]_vars

\* C3: active_pattern is written by a timing thread only while the step index
\* is 0: a switch queued mid-bar leaves it unchanged until the index has wrapped.
C3_SwitchOnlyAtBarBoundary ==
    [][active_pattern' # active_pattern => current_step = 0]_vars

\* C4: once stop() has been called (the flag is set) before the playback-started
\* notification, the thread neither sets playing to True nor calls
\* on_playback_start, and so never reaches the playback loop.
C4_StopDuringCountInAborts ==
    [][stop_event => \A t \in Threads :
           ~Moves(t, "pb_play", "pb_start") /\ ~Moves(t, "pb_start", "loop")]_vars

\* the engine is Idle: no timing thread, not playing, step index 0
Idle == Alive = {} /\ ~playing /\ current_step = 0

\* C5: stop() never waits (it is enabled whenever the controlling thread is
\* free, also when idle or already stopped), and after a stop() that no start()
\* follows (the flag stays set) every timing thread eventually exits and the
\* engine ends in Idle with playing = FALSE and current_step = 0.
C5_StopEndsIdle ==
    /\ []((ctl = "idle" /\ calls < MaxCalls) => ENABLED Stop)
    /\ (<>[]stop_event) => <>[]Idle

\* C5 witness: a stop was requested with a thread in playback, and the engine
\* has come to rest in Idle
C5_Witness == stop_event /\ thread # 0 /\ Idle /\ last_step # None

\* C6: after stop() the timing thread begins no further step, and the one
\* on_step notification it may still make is for the step that was current
\* when stop was called (the step its iteration in progress began with).
C6_StopWithinOneStep ==
    [][stop_event => \A t \in Threads :
           /\ ~Moves(t, "loop", "pads") /\ ~Moves(t, "loop", "apply")
           /\ CallsOnStep(t) => last_step' = iter_step[t]]_vars

\* C7: the iteration for step s submits exactly the pads of the active pattern
\* whose flag at s is 1 and whose sample is cached.
C7_FiresExactlyFlaggedPads ==
    [][\A t \in Threads : (~stop_event /\ Moves(t, "pads", "metro"))
           => fired'[t] = Submitted(active_pattern, iter_step[t])]_vars

\* C8: until a stop is requested, the indices passed to on_step start at 0
\* after the playback-started notification and each next one is the previous
\* plus one modulo total_steps.
C8_StepsInSequence ==
    [][\A t \in Threads : (~stop_event /\ CallsOnStep(t))
           => last_step' = NextStep(last_step)]_vars

\* the click step s of a bar calls for: one on every beat if the metronome is
\* enabled, the accent on the first step of the bar if accent_beat_1
ExpectedClick(s) ==
    IF metronome_enabled /\ s % StepsPerBeat = 0
    THEN (IF accent_beat_1 /\ s = 0 THEN "accent" ELSE "normal")
    ELSE "none"

\* C9: the click submitted in the iteration for step s is the one the
\* metronome setting and s call for.
C9_ClickOnBeats ==
    [][\A t \in Threads : (~stop_event /\ CallsOnStep(t))
           => click'[t] = ExpectedClick(iter_step[t])]_vars

\* the clicks of one count-in bar
BarClicks == [b \in 1..BeatsPerBar |-> IF accent_beat_1 /\ b = 1 THEN "accent" ELSE "normal"]

\* C10: a count-in that ran to its end has notified beats 1..beats_per_bar in
\* order, each once, before playback starts, and has submitted one click per
\* beat if the metronome is enabled and none if it is disabled.
C10_CountInOneBar ==
    \A t \in Threads : pc[t] = "pb_play" =>
        /\ ci_beats[t] = [b \in 1..BeatsPerBar |-> b]
        /\ ci_clicks[t] = IF metronome_enabled THEN BarClicks ELSE <<>>

\* C11: the k-th wake-up target is the playback start time plus the sum of the
\* k intervals computed so far, however late earlier wake-ups were; at bpm 120
\* and 4 steps per beat every interval is 125 ms and the target after 1000
\* steps is start + 125 s; the loop sleeps only for a target in the future.
C11_DriftCompensated ==
    /\ _step_interval(DefaultBpm, DefaultStepsPerBeat) = 125
    /\ t_pc # "off" => next_time = t_start + sum_intervals
    /\ (t_pc # "off" /\ ~tempo_changed) => next_time = t_start + steps * 125
    /\ (steps = 1000 /\ ~tempo_changed) => next_time = t_start + 125000
    /\ t_pc = "wait" => next_time > now
    /\ sleeps = "skipped" => late >= 0

\* C11 witness: 1000 steps at bpm 120 from a start time other than 0, the last
\* of them begun late and without a sleep
C11_Witness ==
    /\ steps = 1000 /\ ~tempo_changed /\ t_start = 7
    /\ next_time = t_start + 125000
    /\ sleeps = "skipped" /\ late > 0

\* the mix cycle in progress ends in this step (it returns or it raises)
CycleEnds == cb_pc = "mix" /\ cb_pc' = "idle"

\* the sum, over the first k voices, of each voice's frame at cursor + f in
\* channel c, for the voices that have more than f - 1 frames remaining
RECURSIVE VoiceSum(_, _, _, _)
VoiceSum(voices, k, f, c) ==
    IF k = 0 THEN 0
    ELSE VoiceSum(voices, k - 1, f, c)
         + (IF Remaining(voices[k]) >= f THEN voices[k].data.frames[voices[k].idx + f][c]
            ELSE 0)

\* clip(0.7 * x, -1, 1), in hundredths, for a sum x in tenths
ClippedGain(x) ==
    IF GainNum * x > FullScale THEN FullScale
    ELSE IF GainNum * x < 0 - FullScale THEN 0 - FullScale ELSE GainNum * x

\* C12: every mix cycle outputs, for every frame f, clip(0.7 * S, -1, 1) with S
\* the sum over the voices active at the start of the cycle of their frame at
\* cursor + f (0 beyond a voice's data), whatever the order of the voices, and
\* every output sample has magnitude at most 1.
C12_OutputIsClippedSum ==
    [][CycleEnds =>
          /\ output' = [f \in 1..FrameCount |-> [c \in 1..CHANNELS |->
                           ClippedGain(VoiceSum(cycle_voices, Len(cycle_voices), f, c))]]
          /\ \A f \in 1..FrameCount, c \in 1..CHANNELS :
                 output'[f][c] >= 0 - FullScale /\ output'[f][c] <= FullScale]_vars

\* C13: every active voice has 0 <= cursor < len(buffer) in every state, and
\* after a mix cycle no voice whose buffer is not longer than frame_count is
\* left in the active set.
C13_CursorInRange ==
    /\ [](\A k \in 1..Len(active_voices) :
              active_voices[k].idx >= 0 /\ active_voices[k].idx < Length(active_voices[k].data))
    /\ [][CycleEnds => \A k \in 1..Len(active_voices') :
              Length(active_voices'[k].data) > FrameCount]_vars

\* C14: every play_data call that has returned has added one voice, the voice
\* is appended with cursor 0, and the next mix cycle mixes it from its first
\* frame: no voice is left at cursor 0 when a cycle ends.
C14_NeverRejects ==
    /\ [](n_added = n_returned)
    /\ [][\A c \in Callers : (p_pc[c] = "append" /\ p_pc'[c] = "idle") =>
              /\ Len(active_voices') = Len(active_voices) + 1
              /\ active_voices'[Len(active_voices')] = [data |-> p_data[c], idx |-> 0]]_vars
    /\ [][CycleEnds => \A k \in 1..Len(active_voices') : active_voices'[k].idx > 0]_vars

\* C15: neither the audio callback nor a caller of play_data is ever waiting
\* for the other side to release AudioPlayer.lock.
C15_NobodyWaitsForLock ==
    /\ cb_pc # "blocked"
    /\ \A c \in Callers : p_pc[c] # "blocked"

\* C16: over a shutdown (action_quit, then on_unmount) the stream is closed
\* and PyAudio terminated exactly once, and no cleanup() raises.
C16_CleanupOnce ==
    /\ n_close <= 1 /\ n_terminate <= 1
    /\ ~cleanup_error
    /\ app = "unmounted" => (n_close = 1 /\ n_terminate = 1 /\ stream = "closed")

\* C17: no mix cycle ends with an error: whatever voice play_data let into the
\* active set and whatever status the backend passed, the callback returns the
\* continue code and the stream is not stopped by it.
C17_CallbackNeverRaises ==
    /\ cb_result # "raised"
    /\ app = "running" => stream = "active"

\* C18: every buffer load_wav returns has exactly 2 channels and every sample
\* in [-1, 1], whatever the file's channel count, rate and sample width.
C18_StereoInRange ==
    wav_pc = "loaded" =>
        /\ ~wav_result.raised
        /\ wav_result.ch = 2
        /\ \A k \in 1..Len(wav_result.frames) :
               /\ Len(wav_result.frames[k]) = 2
               /\ \A c \in 1..Len(wav_result.frames[k]) :
                      wav_result.frames[k][c] >= 0 - One /\ wav_result.frames[k][c] <= One

\* the inputs named as errors: no file, a width other than 1, 2 or 3 bytes,
\* 24-bit data that is not whole samples, samples that are not whole frames,
\* a resampled frame count of 0
ErrorInput(f) ==
    \/ ~f.exists
    \/ f.width \notin {1, 2, 3}
    \/ f.width = 3 /\ Len(f.raw) % 3 # 0
    \/ (Len(f.raw) \div f.width) % f.channels # 0
    \/ f.rate # RATE /\ (f.n_frames * RATE) \div f.rate = 0

\* C19: load_wav never raises, and for an input that is an error it returns a
\* buffer of 0 frames and 2 channels.
C19_NeverRaises ==
    wav_pc = "loaded" =>
        /\ ~wav_result.raised
        /\ ErrorInput(wav_file) => (wav_result.ch = 2 /\ Len(wav_result.frames) = 0)

\* C19 witness: a file of 24-bit samples whose byte count is not a multiple of
\* 3 has been loaded as the empty stereo buffer
C19_Witness ==
    /\ wav_pc = "loaded" /\ wav_file.exists
    /\ wav_file.width = 3 /\ Len(wav_file.raw) % 3 # 0
    /\ wav_result = Array(2, <<>>)

\* the 24-bit value of three little-endian bytes, unsigned and sign-extended
U24(raw) == raw[1] + raw[2] * 256 + raw[3] * 65536
SignExtend24(u) == IF u >= 8388608 THEN u - 16777216 ELSE u

\* a mono file at the engine rate holding one 24-bit sample
OneSample24(f) ==
    f.exists /\ f.width = 3 /\ f.channels = 1 /\ f.rate = RATE /\ Len(f.raw) = 3

\* C20: three little-endian bytes [b0, b1, b2] decode to the 32-bit integer
\* (b0<<8) + (b1<<16) + (b2<<24), that is 256 times the sign-extended 24-bit
\* value, and so to that value divided by 2^23: [0x00, 0x00, 0x80] gives -1.0,
\* [0xFF, 0xFF, 0x7F] gives 8388607/8388608, and the sign is preserved.
C20_Decode24 ==
    (wav_pc = "loaded" /\ OneSample24(wav_file)) =>
        /\ Len(wav_result.frames) = 1
        /\ Int32LE(Padded(wav_file.raw[1], wav_file.raw[2], wav_file.raw[3]))
               = 256 * SignExtend24(U24(wav_file.raw))
        /\ wav_result.frames[1] = <<SignExtend24(U24(wav_file.raw)),
                                    SignExtend24(U24(wav_file.raw))>>
        /\ wav_file.raw = <<0, 0, 128>> => wav_result.frames[1][1] = 0 - One
        /\ wav_file.raw = <<255, 255, 127>> => wav_result.frames[1][1] = One - 1
        /\ wav_result.frames[1][1] < 0 <=> wav_file.raw[3] >= 128

\* C20 witness: the most negative 24-bit sample has been decoded to -1.0
C20_Witness ==
    /\ wav_pc = "loaded" /\ OneSample24(wav_file)
    /\ wav_file.raw = <<0, 0, 128>>
    /\ wav_result.frames = << <<0 - One, 0 - One>> >>

\* a file that load_wav decodes without an error
Decodes(f) == Body(f) # Raised

\* num / den rounded to the nearest integer, a tie to the even one
Round(num, den) ==
    IF 2 * (num % den) < den THEN num \div den
    ELSE IF 2 * (num % den) > den THEN num \div den + 1
    ELSE IF (num \div den) % 2 = 0 THEN num \div den ELSE num \div den + 1

\* C21: a decoded file whose rate is not 44100 Hz is returned with
\* round(n_frames / rate * 44100) frames, and a file at 88200 Hz with half of
\* its frames (to the nearest frame).
C21_ResampledLength ==
    (wav_pc = "loaded" /\ Decodes(wav_file) /\ wav_file.rate # RATE) =>
        /\ Len(wav_result.frames) = Round(wav_file.n_frames * RATE, wav_file.rate)
        /\ wav_file.rate = 2 * RATE => Len(wav_result.frames) = Round(wav_file.n_frames, 2)

\* the normalised value of the k-th sample of the raw bytes, in units of
\* 2^-23: (u - 128) / 128 for 8 bits, s / 32768 for 16 bits
Normalised(width, raw, k) ==
    IF width = 1 THEN (raw[k] - 128) * 65536
    ELSE (IF raw[2 * k - 1] + 256 * raw[2 * k] >= 32768
          THEN raw[2 * k - 1] + 256 * raw[2 * k] - 65536
          ELSE raw[2 * k - 1] + 256 * raw[2 * k]) * 256

\* a file of whole 8- or 16-bit frames at the engine rate
NativeFile(f) ==
    /\ f.exists /\ f.rate = RATE /\ f.width \in {1, 2}
    /\ Len(f.raw) % (f.width * f.channels) = 0

\* C22: a file at 44100 Hz is returned with the frame count of its data, every
\* sample the normalisation of the source sample at the same frame and channel,
\* and a mono file's sample in both channels of its frame.
C22_NativeRateIdentity ==
    (wav_pc = "loaded" /\ NativeFile(wav_file)) =>
        /\ ~wav_result.raised
        /\ Len(wav_result.frames) = Len(wav_file.raw) \div (wav_file.width * wav_file.channels)
        /\ \A k \in 1..Len(wav_result.frames) :
               IF wav_file.channels = 1
               THEN wav_result.frames[k]
                        = <<Normalised(wav_file.width, wav_file.raw, k),
                            Normalised(wav_file.width, wav_file.raw, k)>>
               ELSE /\ Len(wav_result.frames[k]) = wav_file.channels
                    /\ \A c \in 1..wav_file.channels :
                           wav_result.frames[k][c]
                               = Normalised(wav_file.width, wav_file.raw,
                                            (k - 1) * wav_file.channels + c)

\* C22 witness: a mono 16-bit file at 44100 Hz holding the samples 127/32768
\* and -1.0 has been loaded as two frames with that value in both channels
C22_Witness ==
    /\ wav_pc = "loaded" /\ NativeFile(wav_file)
    /\ wav_file.channels = 1 /\ wav_file.width = 2
    /\ wav_file.raw = <<127, 0, 0, 128>>
    /\ wav_result.frames = << <<127 * 256, 127 * 256>>, <<0 - One, 0 - One>> >>


\* C23: against a note binding (n, c) midi_msg_matches is true exactly for a
\* note_on with velocity > 0, note n and channel c; a note_on with velocity 0,
\* a note_off, another note or another channel never match.
C23_NoteMatch ==
    (bind_pc = "matched" /\ parsed[1] = "note") =>
        /\ match_result = "True" <=>
               /\ midi_msg.type = "note_on" /\ midi_msg.velocity > 0
               /\ midi_msg.note = parsed[2] /\ midi_msg.channel = parsed[3]
        /\ (midi_msg.type = "note_off" \/ midi_msg.velocity = 0) => match_result = "False"
        /\ (midi_msg.note # parsed[2] \/ midi_msg.channel # parsed[3])
               => match_result = "False"

\* C23 witness: note_on(note=36, channel=9, velocity=100) has matched the
\* binding parsed from "note:36:ch9"
C23_Witness ==
    /\ bind_pc = "matched" /\ parsed = <<"note", 36, 9>>
    /\ midi_msg = Message("note_on", 36, 100, Absent, Absent, 9)
    /\ match_result = "True"

\* the kind of message a binding of this type is for
EventOf(type) ==
    CASE type = "note" -> "note_on" [] type = "cc" -> "control_change"
      [] type = "pc" -> "program_change"

\* C24: a cc binding matches exactly the control_change messages with its
\* controller number and channel, a pc binding exactly the program_change
\* messages with its program number and channel; a message of another kind
\* than the binding's never matches, and the call never raises.
C24_ControlAndProgramMatch ==
    bind_pc = "matched" =>
        /\ match_result \in {"True", "False"}
        /\ parsed[1] = "cc" =>
               (match_result = "True" <=>
                    /\ midi_msg.type = "control_change"
                    /\ midi_msg.control = parsed[2] /\ midi_msg.channel = parsed[3])
        /\ parsed[1] = "pc" =>
               (match_result = "True" <=>
                    /\ midi_msg.type = "program_change"
                    /\ midi_msg.program = parsed[2] /\ midi_msg.channel = parsed[3])
        /\ midi_msg.type # EventOf(parsed[1]) => match_result = "False"

\* C24 witness: control_change(control=36, channel=9) has matched the binding
\* parsed from "cc:36:ch9"
C24_Witness ==
    /\ bind_pc = "matched" /\ parsed = <<"cc", 36, 9>>
    /\ midi_msg = Message("control_change", Absent, Absent, 36, Absent, 9)
    /\ match_result = "True"

\* is every character of s a decimal digit, and is there at least one
AllDigits(s) == s # <<>> /\ \A i \in 1..Len(s) : s[i] \in Digits

\* the whole string is <note|cc|pc>:<digits>:ch<digits>
WholeForm(s) ==
    \E k \in 1..3, n1 \in 1..Len(s), n2 \in 1..Len(s) :
        /\ Len(s) = Len(TypeChars[k]) + 1 + n1 + 3 + n2
        /\ SubSeq(s, 1, Len(TypeChars[k]) + 1) = TypeChars[k] \o <<":">>
        /\ AllDigits(SubSeq(s, Len(TypeChars[k]) + 2, Len(TypeChars[k]) + 1 + n1))
        /\ SubSeq(s, Len(TypeChars[k]) + 2 + n1, Len(TypeChars[k]) + 4 + n1)
               = <<":", "c", "h">>
        /\ AllDigits(SubSeq(s, Len(TypeChars[k]) + 5 + n1, Len(s)))

\* C25: parse_midibind returns a binding exactly for the strings that are, as
\* a whole, <note|cc|pc>:<digits>:ch<digits>, and None for every other string;
\* a pad whose string is not of that form has no entry in the binding map and
\* is never triggered by a message.
C25_ParsesWholeFormOnly ==
    /\ bind_pc # "init" => (parsed # NoBind <=> WholeForm(pad_bind))
    /\ (\E e \in midibind_map : e[2] = 1) => WholeForm(pad_bind)
    /\ 1 \in triggered => WholeForm(pad_bind)


\* C26: the MIDI thread is never waiting for the controlling thread: it hands
\* the flash over and goes on polling, also while the controlling thread is
\* busy and while it is waiting in _stop_midi_listener for the MIDI thread.
C26_MidiThreadNeverWaitsForUi == midi_pc # "in_call"


\* C27: action_load_patterns swaps the sequence only when no timing thread is
\* alive, in playback or in count-in, and the thread never tests or uses an
\* index it read from a sequence that has been replaced since.
C27_SwapOnlyWhenQuiesced ==
    /\ [][n_loads' # n_loads => ~EdAlive]_vars
    /\ [](ed_pc \in {"check", "index"} => idx_load = n_loads)

\* C28: the timing thread is never ended by an exception, whatever the
\* controlling thread changes and wherever the thread is, and an index that is
\* not valid for the pattern list makes the thread skip the firing and go on.
C28_ThreadNeverFails ==
    /\ [](ed_error = "none" /\ ed_pc # "failed")
    /\ [][(ed_pc \in {"check", "index"} /\ ed_pc' # ed_pc /\ ~ValidIndex(pat_idx, patterns))
              => ed_pc' = "metro"]_vars


C30_BpmInRange ==
    /\ [](sq_pc # "new" =>
              /\ sequence.bpm >= BpmFloor /\ sequence.bpm <= BpmCeiling
              /\ sequence.bpm > 0)
    /\ [][(sq_pc # "new" /\ sequence'.bpm # sequence.bpm) =>
              \/ sequence'.bpm = sequence.bpm + BpmStep
              \/ sequence'.bpm = sequence.bpm - BpmStep]_vars


\* C31: a tempo change made while the thread sleeps between two steps leaves
\* the deadline of that sleep as it is, and every iteration moves the deadline
\* by the interval of the tempo current when the iteration runs.
C31_TempoTakesEffectNextStep ==
    /\ [][(t_pc = "wait" /\ bpm' # bpm) => (next_time' = next_time /\ t_pc' = "wait")]_vars
    /\ [][(steps' = steps + 1) =>
              next_time' = next_time + (MinuteMs \div bpm) \div DefaultStepsPerBeat]_vars

\* C31 witness: the tempo was raised from 120 to 125 during the first sleep;
\* the first interval was 125 ms, the second 120 ms
C31_Witness ==
    /\ changed_at = "wait" /\ bpm = DefaultBpm + BpmStep
    /\ steps = 2 /\ sum_intervals = 245 /\ next_time = t_start + 245

\* C32: every write to the sample cache happens before a thread that reads
\* it is started, and nothing writes to it afterwards: the cache changes only
\* during construction, when no such thread exists, and is the same at every
\* read as when the application was mounted.
C32_CacheWrittenBeforeConsumers ==
    /\ [][cache' # cache => (consumers = {} /\ consumers' = {} /\ boot_pc = "preload")]_vars
    /\ [](consumers # {} => boot_pc = "running")

\* C32 witness: both pads were preloaded and a thread has read the cache
C32_Witness ==
    /\ cache = PadIds /\ consumers # {} /\ cache_reads > 0 /\ cache_uses > 0

\* the callback handles the voice at cb_i
MixesVoice == cb_pc = "mix" /\ cb_i > 0 /\ cb_i' # cb_i

\* the frames a voice contributes to a cycle, in order, from its cursor on
ChunkOf(v) == [f \in 1..Min(FrameCount, Len(v.data.frames) - v.idx) |-> v.data.frames[v.idx + f]]

\* C33: in a mix cycle each voice's cursor advances by exactly
\* min(frame_count, frames remaining), the frames from the cursor on are added
\* to the output in order, and a voice that has reached the end of its buffer
\* leaves the active set; the other voices, also those on the same buffer,
\* keep their cursors, and no step changes the buffer of a voice.
C33_CursorAdvancesByFramesRead ==
    [][MixesVoice =>
          LET v == active_voices[cb_i]
              n == Min(FrameCount, Len(v.data.frames) - v.idx)
          IN  /\ IF v.idx + n >= Len(v.data.frames)
                 THEN /\ Len(active_voices') = Len(active_voices) - 1
                      /\ \A k \in 1..Len(active_voices') :
                             active_voices'[k] = active_voices[IF k < cb_i THEN k ELSE k + 1]
                 ELSE /\ Len(active_voices') = Len(active_voices)
                      /\ active_voices'[cb_i] = [data |-> v.data, idx |-> v.idx + n]
                      /\ \A k \in 1..Len(active_voices) :
                             k # cb_i => active_voices'[k] = active_voices[k]
              /\ \A f \in 1..n, c \in 1..CHANNELS :
                     out_data'[f][c] = out_data[f][c] + ChunkOf(v)[f][c]
              /\ \A f \in (n + 1)..FrameCount : out_data'[f] = out_data[f]]_vars

\* a play_data call returns at once: it is counted and no caller moves
Rejects == n_returned' = n_returned + 1 /\ p_pc' = p_pc

\* C38: a play_data call with None or a zero-length buffer leaves the active
\* voices as they are, and no buffer without frames is on its way into the
\* active set or in it: every active voice has frames remaining.
C38_EmptyBufferAddsNoVoice ==
    /\ [][Rejects => (active_voices' = active_voices /\ n_added' = n_added)]_vars
    /\ [](\A c \in Callers : p_pc[c] # "idle" => Len(p_data[c].frames) > 0)
    /\ [](\A k \in 1..Len(active_voices) :
              Len(active_voices[k].data.frames) - active_voices[k].idx > 0)

\* C38 witness: a call was rejected while a voice was playing
C38_Witness ==
    /\ n_returned > n_added /\ n_added > 0 /\ active_voices # <<>>
    /\ \A c \in Callers : p_pc[c] = "idle"

\* playback is started: action_toggle_play takes its start branch
PlaybackIsStarted == ed_pc # "count_in" /\ ed_pc' = "count_in"

\* C34: a switch queued during playback and not applied before stop() is
\* discarded: when playback is started again no queued index is pending, so
\* the first bar plays the pattern that is active then.
C34_NoStaleSwitchAfterStop ==
    [][PlaybackIsStarted => pending_pattern' = None]_vars

\* C36: at a bar boundary the thread makes the last queued index the active
\* pattern and leaves none pending, and no queue call is lost: the index the
\* thread removes is the one it has applied.
C36_QueuedSwitchIsApplied ==
    /\ [][\A t \in Threads : (pc[t] = "apply" /\ pc'[t] = "clear") =>
              active_pattern' = pending_pattern]_vars
    /\ [][\A t \in Threads : (pc[t] = "clear" /\ pc'[t] = "pads") =>
              (pending_pattern = active_pattern /\ pending_pattern' = None)]_vars

\* C37: in every state the pattern list is non-empty and active_pattern is an
\* index into it, and a deletion leaves no pending index.
C37_ActivePatternInRange ==
    /\ [](Len(patterns) >= 1 /\ 0 <= active_pattern /\ active_pattern < Len(patterns))
    /\ [][Len(patterns') < Len(patterns) => pending_pattern' = None]_vars

\* what a message is matched on: the kind of binding it is for, its number
\* and its channel; NoBind for the kinds no binding is for
EventKey(msg) ==
    IF msg.type = "note_on" THEN <<"note", msg.note, msg.channel>>
    ELSE IF msg.type = "control_change" THEN <<"cc", msg.control, msg.channel>>
    ELSE IF msg.type = "program_change" THEN <<"pc", msg.program, msg.channel>>
    ELSE NoBind

\* the pads of the bank, in bank order, with their binding strings
BankBinds == <<pad_bind, SecondPadBind>>

\* C39: a polled message triggers at most one pad, and none when it is a
\* note_off or a note_on of velocity 0; the pad triggered is the last pad of
\* the bank whose parsed binding equals the message's kind, number and
\* channel, and it is triggered when there is one; the buffer of the pad is
\* submitted before its flash is dispatched.
C39_OnePadPerEvent ==
    bind_pc = "polled" =>
        /\ Cardinality(triggered) <= 1
        /\ Skipped(midi_msg) => triggered = {}
        /\ \A p \in PadIds :
               p \in triggered <=>
                   /\ ~Skipped(midi_msg)
                   /\ BankBinds[p] # <<>> /\ parse_midibind(BankBinds[p]) # NoBind
                   /\ parse_midibind(BankBinds[p]) = EventKey(midi_msg)
                   /\ \A q \in PadIds :
                          (q > p /\ BankBinds[q] # <<>>) =>
                              parse_midibind(BankBinds[q]) # EventKey(midi_msg)
        /\ \A p \in triggered :
               trigger_calls = (IF p \in sample_cache THEN << <<"play_data", p>> >> ELSE <<>>)
                                   \o << <<"flash", p>> >>
        /\ triggered = {} => trigger_calls = <<>>

\* C39 witness: both pads declare cc:3:ch0 and control_change(control=3,
\* channel=0) has triggered the second pad only
C39_Witness ==
    /\ bind_pc = "polled" /\ parse_midibind(pad_bind) = <<"cc", 3, 0>>
    /\ midi_msg = Message("control_change", Absent, Absent, 3, Absent, 0)
    /\ triggered = {2}

\* a polling thread is alive
Polling(p) == p \in {"poll", "trigger", "in_call"}

\* C40: at most one MIDI polling thread is alive at any time: the join of
\* _stop_midi_listener returns only once the thread has exited, and the
\* thread of a previous listener never polls again.
C40_OnePollingThread ==
    /\ [](~(Polling(old_pc) /\ Polling(midi_pc)))
    /\ [][(ui_pc = "joining" /\ ui_pc' = "idle") => midi_pc = "exited"]_vars
    /\ [](old_polls = 0)

\* C35: the play/stop key asks the engine to stop whenever a timing thread is
\* in its count-in or playing, and to start only when the engine is idle; and
\* once a stop has been processed and every timing thread has exited the
\* application's playhead is -1, so the next key starts playback, whatever the
\* interleaving of the thread's on_step / on_count_in_beat callbacks with the key.
C35_ToggleFollowsEngine ==
    /\ toggle_busy => toggle_req = "stop"
    /\ (toggle_req = "stop" /\ Alive = {} /\ ctl = "idle") => playhead = -1

====
